---- MODULE Spec2Model ----
(***************************************************************************)
(* Checklist bot: the per-chat checklist document, its persistence and the *)
(* event handlers that mutate it.                                          *)
(*                                                                         *)
(* The main specification (Spec) is the reply-keyboard variant             *)
(* (src/unnamed/part_006).  Every handler is an async function: it runs    *)
(* without interruption up to an await of a platform call (sendMessage,    *)
(* getChatMember), where the event loop may start or resume any other      *)
(* handler.  One action of the model is one such uninterrupted segment.    *)
(* Awaits of functions that return without a platform call (maybeWelcome   *)
(* for a welcomed chat, canUserAdd in a private chat) resume in the same   *)
(* turn of the loop and are part of the segment.                           *)
(*                                                                         *)
(* SpecStore is load and save at the grain of the file system, with the    *)
(* process dying between any two file operations, for the two storage      *)
(* layers of the sources: loadData/saveData (part_006) and load/save       *)
(* (part_004).  SpecChecklist is the inline-keyboard program at the head   *)
(* of src/checklist.js, whose document maps a chat to a bare array.        *)
(*                                                                         *)
(* SpecLife is main(), the timers it arms, the broadcasts and the shutdown *)
(* routine of part_006, checklist.js and the duty program of part_003,     *)
(* with every send and every save free to fail.  SpecDuty is the           *)
(* start-duty callback of checklist.js, part_005 and part_004.  SpecTap is *)
(* the item button of part_006 and part_009.  SpecPerm is the permission   *)
(* decision of part_006 and part_008.                                      *)
(*                                                                         *)
(* SpecWalk is part_006 used in one chat from an empty list, request after *)
(* request.  SpecRemove is its two removals on lists of up to three items. *)
(* SpecAdd is the add paths of part_006 and the direct-message handler of  *)
(* part_004.  SpecBoot is the statements of part_006, part_008 and         *)
(* part_004 from the tests of process.env to the awake message.            *)
(*                                                                         *)
(* SpecHolder is the direct-message checklist of part_008 and part_005     *)
(* with principals taking duty one after the other.  SpecPolicy is free    *)
(* text and replies in a group of part_006.  SpecBase is the duty program  *)
(* of part_003: the checklist of BASE_ITEMS and extra items a principal    *)
(* works in the direct-message chat.  SpecRuns is that program run after   *)
(* run on one DATA_PATH.                                                   *)
(***************************************************************************)
EXTENDS Integers, Sequences, FiniteSets, TLC

(* ------------------------------ bounds --------------------------------- *)

\* Number of inbound updates delivered in one run.
MaxEvents == 2
\* Signals delivered to one run of the duty program before it exits.
MaxShutdowns == 2

(* ------------------------- program constants --------------------------- *)

\* truncate(it.text, 28) in itemButtonLabel.
LABEL_MAX == 28
\* BASE_ITEMS.length of the duty program
BASE_LEN == 8

\* const DEFAULT_COMPACT = String(process.env.COMPACT || 'false') === 'true'
DEFAULT_COMPACT == FALSE

(* ------------------------------ universe ------------------------------- *)

\* One multi-party chat and one private chat.
GroupChat == "g"
PrivateChat == "p"
Chats == {GroupChat, PrivateChat}

\* msg.chat.type
ChatType(c) == IF c = PrivateChat THEN "private" ELSE "group"

\* Principals: 1 is an administrator of the group, 2 is a plain member who
\* also owns the private chat.  BOT is the bot's own id (SELF_ID).
Users == {1, 2}
BOT == 9
GroupAdmins == {1}

(* -------------------------------- text --------------------------------- *)
\* A text is a sequence of tokens.  A token is one character (" ", "#", ":",
\* a digit, a letter), one command word ("/add") or one whole button label.

Digits == {"0", "1", "2", "3", "4", "5", "6", "7", "8", "9"}

DigitVal(d) ==
    CASE d = "0" -> 0 [] d = "1" -> 1 [] d = "2" -> 2 [] d = "3" -> 3
      [] d = "4" -> 4 [] d = "5" -> 5 [] d = "6" -> 6 [] d = "7" -> 7
      [] d = "8" -> 8 [] d = "9" -> 9

DigitTok(n) ==
    CASE n = 0 -> "0" [] n = 1 -> "1" [] n = 2 -> "2" [] n = 3 -> "3"
      [] n = 4 -> "4" [] n = 5 -> "5" [] n = 6 -> "6" [] n = 7 -> "7"
      [] n = 8 -> "8" [] n = 9 -> "9"

IsSpace(t) == t = " "

RECURSIVE TrimLeft(_)
TrimLeft(s) ==
    IF s # <<>> /\ IsSpace(Head(s)) THEN TrimLeft(Tail(s)) ELSE s

RECURSIVE TrimRight(_)
TrimRight(s) ==
    IF s # <<>> /\ IsSpace(s[Len(s)])
    THEN TrimRight(SubSeq(s, 1, Len(s) - 1))
    ELSE s

\* String.prototype.trim
Trim(s) == TrimRight(TrimLeft(s))

\* The leading run of digits of s.
RECURSIVE DigitRun(_)
DigitRun(s) ==
    IF s # <<>> /\ Head(s) \in Digits
    THEN <<Head(s)>> \o DigitRun(Tail(s))
    ELSE <<>>

RECURSIVE DigitsValue(_)
DigitsValue(ds) ==
    IF ds = <<>> THEN 0
    ELSE 10 * DigitsValue(SubSeq(ds, 1, Len(ds) - 1)) + DigitVal(ds[Len(ds)])

\* parseInt(s, 10): leading white space is skipped, then the digits are read
\* and whatever follows them is ignored; without a digit the result is NaN.
ParseInt(s) ==
    LET ds == DigitRun(TrimLeft(s))
    IN  IF ds = <<>> THEN [nan |-> TRUE, val |-> 0]
        ELSE [nan |-> FALSE, val |-> DigitsValue(ds)]

\* const i = parseInt(..) - 1;  i >= 0 && i < items.length
\* (every comparison with NaN is false)
IndexInRange(p, len) == ~p.nan /\ p.val - 1 >= 0 /\ p.val - 1 < len

\* text.match(/#(\d+)/): the digits after the first "#" that is followed by
\* a digit; <<>> when there is no match.
RECURSIVE MatchHashNumber(_)
MatchHashNumber(s) ==
    IF Len(s) < 2 THEN <<>>
    ELSE IF Head(s) = "#" /\ s[2] \in Digits THEN DigitRun(Tail(s))
    ELSE MatchHashNumber(Tail(s))

\* truncate = (s,n) => s && s.length>n ? s.slice(0,n-1)+'...' : s
truncate(s, n) ==
    IF Len(s) > n THEN SubSeq(s, 1, n - 1) \o <<"...">> ELSE s

\* itemButtonLabel(it, i): `${it.done ? 'V' : 'O'} #${i+1}: ${truncate(it.text, 28)}`
\* (the model's lists have fewer than ten items: one digit)
itemButtonLabel(it, i) ==
    <<(IF it.done THEN "[x]" ELSE "[ ]"), " ", "#", DigitTok(i + 1), ":", " ">>
        \o truncate(it.text, LABEL_MAX)

\* The slash commands the handlers know.
CommandWords ==
    {"/start", "/add", "/list", "/done", "/remove", "/clear",
     "/allow", "/deny", "/whoallowed"}

\* /^\/(start|add|list|done|remove|clear|allow|deny|whoallowed)/i.test(msg.text)
IsCommandText(s) == s # <<>> /\ Head(s) \in CommandWords

\* cmdRe(name, true) = ^\/name(?:@\w+)?\s+(.+) : the command word, at least
\* one white space, at least one more character.
cmdReArgMatches(name, s) ==
    /\ Len(s) >= 3
    /\ Head(s) = name
    /\ IsSpace(s[2])

\* m[1] of cmdRe(name, true): \s+ is greedy but gives back one white space
\* when nothing else is left for (.+).
cmdReArg(s) ==
    LET rest == TrimLeft(Tail(s))
    IN  IF rest = <<>> THEN <<" ">> ELSE rest

RECURSIVE AllSpaces(_)
AllSpaces(s) == s = <<>> \/ (IsSpace(Head(s)) /\ AllSpaces(Tail(s)))

\* cmdRe(name) = ^\/name(?:@\w+)?\s*$
cmdReMatches(name, s) == s # <<>> /\ Head(s) = name /\ AllSpaces(Tail(s))

(* ------------------------------ document ------------------------------- *)
\* DB[chatId] is undefined (shape "none"), a legacy bare array of items
\* (shape "array") or { items, allow, removeMode, compact } (shape "state").
\* In the duty program of part_003 the entry of a private chat is the user
\* state { compact, removeMode, baseDone, extra }: items holds extra, and
\* baseDone is empty in every other program.

NoScope ==
    [shape |-> "none", items |-> <<>>, allow |-> <<>>,
     removeMode |-> FALSE, compact |-> FALSE, baseDone |-> <<>>]

LegacyScope(items) ==
    [shape |-> "array", items |-> items, allow |-> <<>>,
     removeMode |-> FALSE, compact |-> FALSE, baseDone |-> <<>>]

ScopeState(items, allow, removeMode, compact) ==
    [shape |-> "state", items |-> items, allow |-> allow,
     removeMode |-> removeMode, compact |-> compact, baseDone |-> <<>>]

Item(text, done) == [text |-> text, done |-> done]

\* {} : no chat has an entry.
EmptyDoc == [c \in Chats |-> NoScope]

(* ----------------------------- persistence ----------------------------- *)
\* The content of a file: absent, a complete JSON text, or the beginning of
\* one (a write that did not finish).

MissingFile == [kind |-> "missing", doc |-> EmptyDoc, duty |-> 0]
PartialFile == [kind |-> "partial", doc |-> EmptyDoc, duty |-> 0]

\* JSON.stringify(obj, null, 2)
Serialize(doc) == [kind |-> "json", doc |-> doc, duty |-> 0]

\* JSON.parse(fs.readFileSync(DATA_PATH, 'utf8')) throws when the file is
\* absent or its text is not complete JSON.
ReadThrows(f) == f.kind # "json"
Parse(f) == f.doc

(* ------------------------------- state --------------------------------- *)

VARIABLES
    DB,                     \* let DB = loadData(): the in-memory document
    file,                   \* content of DATA_PATH (checklists.json)
    tmpFile,                \* content of DATA_PATH + '.tmp'
    ActiveChats,            \* const ActiveChats = new Set(Object.keys(DB))
    WelcomedThisRun,        \* const WelcomedThisRun = new Set()
    ADD_REQUIRE_ALLOWLIST,  \* process.env.ADD_REQUIRE_ALLOWLIST, fixed at start
    ev,                     \* the handler invocations, in arrival order
    fin,                    \* the invocation that ended in the last step
    clock,                  \* number of items appended so far
    build,                  \* which source file is the running program
    proc,                   \* the process: "down", "up", or inside a save
    run,                    \* main(), its timers and the shutdown routine
    duty                    \* the duty program's document: who is on duty

vars ==
    <<DB, file, tmpFile, ActiveChats, WelcomedThisRun, ADD_REQUIRE_ALLOWLIST,
      ev, fin, clock, build, proc, run, duty>>

(* ------------------------------- the run ------------------------------- *)
\* main(), the timers it arms and the shutdown routine.  Three programs are
\* told apart by build: part_006 (lines 365-482), checklist.js (lines
\* 248-328) and the duty program of part_003 (lines 1436-1925).

\* A broadcast in flight: for (const cid of targets) { await send(cid) }.
\* guarded: the loop body is a try/catch.
Broadcast(kind, targets, guarded) ==
    [kind |-> kind, targets |-> targets, todo |-> targets, tried |-> {},
     guarded |-> guarded, threw |-> FALSE]

NoBroadcast == Broadcast("none", {}, TRUE)

\* The state before main() has run, and the value of run in the
\* specifications that do not follow main().
\*   phase    Starting until startPolling resolves, WarningIssued from the
\*            warning timer on, Stopped from process.exit on
\*   main     where main() stands: "polling", "awake", "armed", "failed"
\*   timers   the setTimeout calls not yet fired, in arming order
\*   jobs     the broadcasts in flight; ended: the one that ended last
\*   stop     where the shutdown routine stands; by: what started it
\*   summary  the final status message was sent or attempted
\*   rejected a callback ended in a rejection that 'unhandledRejection' logs
\*   BOT_TOKEN, CHAT_ID  process.env as texts, <<>> when unset or empty
\* Before main(), the statements of the file run in order; main is then
\* "env" (the checks of process.env), "bot" (new TelegramBot) or "load".
NoRun ==
    [phase |-> "Starting", main |-> "polling",
     BOT_TOKEN |-> <<"t">>, CHAT_ID |-> <<"-", "1">>,
     DURATION_MINUTES |-> 0, SLEEP_WARNING_SECONDS |-> 0,
     timers |-> <<>>, jobs |-> <<>>, ended |-> NoBroadcast, warnings |-> 0,
     stop |-> "none", by |-> "none", summary |-> FALSE, summaries |-> 0,
     rejected |-> FALSE,
     exit |-> "none"]

\* The duty program's document before anyone took duty: DB.duty.active
\* (dutyUserId in part_005; 0: nobody) and DB.dmLink / dmLinked.
NoDuty == [active |-> 0, dmLinked |-> {}]

(* --------------------------- state accessor ---------------------------- *)

\* An upgrade that keeps the record's defaults and loses the array's items.
getStateValueEmptied(v) ==
    IF v.shape = "state" THEN v ELSE ScopeState(<<>>, <<>>, FALSE, DEFAULT_COMPACT)

\* A getState that also puts a record's removeMode back to its default.
getStateValueReset(v) ==
    IF v.shape = "state" THEN [v EXCEPT !.removeMode = FALSE]
    ELSE ScopeState(v.items, <<>>, FALSE, DEFAULT_COMPACT)

\* getState(cid), as the value DB[cid] has after the call.
getStateValue(v) ==
    IF v.shape = "none" THEN ScopeState(<<>>, <<>>, FALSE, DEFAULT_COMPACT)
    ELSE IF v.shape = "array"
         THEN ScopeState(v.items, <<>>, FALSE, DEFAULT_COMPACT)
    ELSE v

\* getState(cid), as the document after the call.
getState(db, cid) == [db EXCEPT ![cid] = getStateValue(db[cid])]

Range(s) == {s[i] : i \in DOMAIN s}

\* A removal that counts rows from one: it takes the row before the one asked.
SpliceRowBefore(items, i) ==
    [k \in 1..(IF i >= 1 /\ i <= Len(items) THEN Len(items) - 1 ELSE Len(items)) |->
        IF k < i THEN items[k] ELSE items[k + 1]]

\* A removal that drops the last row whatever row was asked (items.pop()).
SpliceLast(items, i) ==
    [k \in 1..(IF i < Len(items) THEN Len(items) - 1 ELSE Len(items)) |-> items[k]]

\* items.splice(i, 1): nothing is removed when i is past the end.
Splice(items, i) ==
    [k \in 1..(IF i < Len(items) THEN Len(items) - 1 ELSE Len(items)) |->
        IF k <= i THEN items[k] ELSE items[k + 1]]

\* for (const it of items) { if (it.done) { it.done = false; changed = true; } }
uncheckAll(items) == [k \in DOMAIN items |-> [items[k] EXCEPT !.done = FALSE]]

\* saveData(obj): the temp file is written, then renamed over DATA_PATH;
\* what DATA_PATH holds afterwards.
saveData(db) == Serialize(db)

\* A loadData whose catch writes a document with the group's entry created
\* and still returns {}.
loadDataSeeded(f) ==
    IF ReadThrows(f)
    THEN [doc |-> EmptyDoc, file |-> Serialize(getState(EmptyDoc, GroupChat))]
    ELSE [doc |-> Parse(f), file |-> f]

\* loadData(): the document returned and what DATA_PATH holds afterwards.
loadData(f) ==
    IF ReadThrows(f)
    THEN [doc |-> EmptyDoc, file |-> Serialize(EmptyDoc)]
    ELSE [doc |-> Parse(f), file |-> f]

(* ------------------------------ inbound -------------------------------- *)
\* msg.reply_to_message: its sender (0: the message is no reply) and whether
\* its text holds "Send the task text:".

NoReply == [from |-> 0, prompt |-> FALSE]
PromptReply == [from |-> BOT, prompt |-> TRUE]
BotReply == [from |-> BOT, prompt |-> FALSE]
UserReply(u) == [from |-> u, prompt |-> FALSE]

Message(c, u, text, reply) ==
    [chat |-> c, from |-> u, text |-> text, reply |-> reply]

\* Item buttons of a keyboard sent earlier: row 1, and row 9 of a list that
\* has since shrunk.
TapText(i) == itemButtonLabel(Item(<<"a">>, FALSE), i)

\* What the plain member (principal 2) sends to the group.
MemberInbound ==
    {Message(GroupChat, 2, t, NoReply) :
        t \in {<<"/start">>, <<"/list">>, <<"/clear">>, <<"/whoallowed">>,
               <<"/add", " ", "a">>, <<"/add">>,
               <<"/done", " ", "1">>, <<"/done", " ", "9">>, <<"/done", " ", "a">>,
               <<"/remove", " ", "1">>, <<"/remove", " ", "9">>,
               <<"Refresh">>, <<"Clear checks">>, <<"Compact view">>,
               <<"Remove mode">>, <<"Done removing">>, <<"Add">>,
               TapText(0), <<"b">>}}
    \cup {Message(GroupChat, 2, <<"b">>, r) : r \in {PromptReply, BotReply}}
    \cup {Message(GroupChat, 2, <<"/allow">>, UserReply(2))}

\* What the administrator (principal 1) sends to the group.
AdminInbound ==
    {Message(GroupChat, 1, t, NoReply) :
        t \in {<<"/add", " ", "a">>, <<"/allow">>, <<"Remove mode">>, TapText(0)}}
    \cup {Message(GroupChat, 1, <<w>>, UserReply(2)) : w \in {"/allow", "/deny"}}

\* What principal 2 sends in the private chat.
PrivateInbound ==
    {Message(PrivateChat, 2, t, NoReply) :
        t \in {<<"/add", " ", "a">>, <<"/add", " ", " ">>,
               <<"/remove", " ", "1">>, <<"/remove">>,
               <<"Full view">>, <<"Remove mode">>, <<"Done removing">>,
               TapText(0), TapText(8),
               <<"b">>, <<"b", " ", "#", "1">>}}
    \cup {Message(PrivateChat, 2, <<"b">>, PromptReply)}

Inbound == MemberInbound \cup AdminInbound \cup PrivateInbound

(* ------------------------- handler invocations ------------------------- *)
\* pc: "welcome1" (awaiting the welcome sendMessage), "welcome2" (awaiting
\* the sendListInteractive of maybeWelcome), "perm" (awaiting getChatMember),
\* "done" (returned; its last send, if any, has been issued), "failed" (an
\* awaited send rejected: the handler ended with an unhandled rejection).

\* seq: the arrival number.  The other fields past pc record, for the
\* properties, what the invocation did: the branch suspended on canUserAdd,
\* the index read before that await, the kinds of message it sent, its
\* effect on the document, the text it appended, the value of the append
\* counter when it appended, and whether it found its index out of range.
\* before: the items of its chat as its last segment found them (kept in
\* fin only).
NewHandler(m, kind) ==
    [seq |-> 0, msg |-> m, kind |-> kind, pc |-> "done", br |-> "none", n |-> 0,
     replies |-> {}, effect |-> "none", item |-> <<>>, stamp |-> 0,
     oor |-> FALSE, before |-> <<>>]

Ended(h) == h.pc \in {"done", "failed"}

\* No invocation ended in the last step.
NoHandler ==
    [NewHandler(Message(GroupChat, 0, <<>>, NoReply), "none") EXCEPT !.pc = "idle"]

\* What ev keeps of an invocation once it has ended: its arrival number,
\* its chat, how it ended, its effect and when it appended.
Summary(h) ==
    [NewHandler(Message(h.msg.chat, 0, <<>>, NoReply), "none") EXCEPT
        !.seq = h.seq, !.pc = h.pc, !.effect = h.effect, !.stamp = h.stamp]

\* The result of a segment: the document, DATA_PATH, the append counter and
\* the handler's own record.
Ret(db, f, ck, h) == [db |-> db, file |-> f, clock |-> ck, h |-> h]

\* return bot.sendMessage(cid, ...) / await ...; return
Replied(h, r) == [h EXCEPT !.replies = @ \cup {r}, !.pc = "done"]

(* ----------------------------- permissions ----------------------------- *)

\* What getChatMember reports for a principal: creator or administrator.
IsAdminStatus(cid, uid) == cid = GroupChat /\ uid \in GroupAdmins

\* isAdmin(cid, uid): the lookup's answer, or false when the lookup throws.
isAdmin(cid, uid, lookupOk) == lookupOk /\ IsAdminStatus(cid, uid)

\* canUserAdd(msg), given what its isAdmin call (made only outside private
\* chats) returned.
canUserAdd(m, db, admin) ==
    IF m.from = 0 THEN FALSE
    ELSE IF ChatType(m.chat) = "private" THEN TRUE
    ELSE IF admin THEN TRUE
    ELSE IF ~ADD_REQUIRE_ALLOWLIST THEN TRUE
    ELSE m.from \in Range(getStateValue(db[m.chat]).allow)

(* --------------------------- handler segments -------------------------- *)

\* getList(cid).push({ text, done:false }); saveData(DB); await sendListInteractive(cid)
PushItem(h, db, ck, t) ==
    LET db2 == [db EXCEPT ![h.msg.chat].items = Append(@, Item(t, FALSE))]
    IN  Ret(db2, saveData(db2), ck + 1,
            [Replied(h, "list") EXCEPT
                !.effect = "added", !.item = t, !.stamp = ck + 1])

\* /add after canUserAdd (lines 197-200).
AddCommand(h, db, f, ck, allowed) ==
    IF ~allowed THEN Ret(db, f, ck, Replied(h, "reject"))
    ELSE LET text == Trim(cmdReArg(h.msg.text))
         IN  IF text = <<>> THEN Ret(db, f, ck, Replied(h, "usage"))
             ELSE PushItem(h, db, ck, text)

\* Force-reply add and free-text add after canUserAdd (lines 304-307, 333-336).
TextAdd(h, db, f, ck, allowed) ==
    IF ~allowed THEN Ret(db, f, ck, Replied(h, "reject"))
    ELSE LET t == Trim(h.msg.text)
         IN  IF t = <<>> THEN Ret(db, f, ck, [h EXCEPT !.pc = "done"])
             ELSE PushItem(h, db, ck, t)

\* A remove mode kept in one flag for all chats.
RemoveModeOnEverywhere(h, db, f, ck, allowed) ==
    IF ~allowed THEN Ret(db, f, ck, Replied(h, "reject"))
    ELSE LET db2 == [c \in Chats |->
                        [getStateValue(db[c]) EXCEPT !.removeMode = TRUE]]
         IN  Ret(db2, saveData(db2), ck,
                 [Replied(h, "removeModeOn") EXCEPT !.effect = "mode"])

\* "Remove mode" after canUserAdd (lines 286-289).
RemoveModeOn(h, db, f, ck, allowed) ==
    IF ~allowed THEN Ret(db, f, ck, Replied(h, "reject"))
    ELSE LET db2 == [db EXCEPT ![h.msg.chat].removeMode = TRUE]
         IN  Ret(db2, saveData(db2), ck,
                 [Replied(h, "removeModeOn") EXCEPT !.effect = "mode"])

\* Item tap in remove mode after canUserAdd (lines 317-322): the index was
\* read before the await, the array is the live one.
TapRemove(h, db, f, ck, allowed) ==
    IF ~allowed THEN Ret(db, f, ck, Replied(h, "reject"))
    ELSE LET db2 == [db EXCEPT ![h.msg.chat].items = Splice(@, h.n)]
         IN  Ret(db2, saveData(db2), ck,
                 [Replied(h, "list") EXCEPT !.effect = "removed"])

\* The rest of a handler once canUserAdd has answered.
AfterCanUserAdd(h, db, f, ck, allowed) ==
    CASE h.br = "add" -> AddCommand(h, db, f, ck, allowed)
      [] h.br = "removeMode" -> RemoveModeOn(h, db, f, ck, allowed)
      [] h.br = "tap" -> TapRemove(h, db, f, ck, allowed)
      [] OTHER -> TextAdd(h, db, f, ck, allowed)

\* await canUserAdd(msg): answered in the same turn in a private chat,
\* suspended on getChatMember otherwise.
AwaitCanUserAdd(h, br, db, f, ck) ==
    IF ChatType(h.msg.chat) = "private"
    THEN AfterCanUserAdd([h EXCEPT !.br = br], db, f, ck,
                         canUserAdd(h.msg, db, FALSE))
    ELSE Ret(db, f, ck, [h EXCEPT !.pc = "perm", !.br = br])

\* A clear that unchecks in memory and never saves.
ClearChecksUnsaved(h, db, f, ck) ==
    Ret([db EXCEPT ![h.msg.chat].items = uncheckAll(@)], f, ck,
        [Replied(h, "list") EXCEPT !.effect = "cleared"])

\* const { changed } = uncheckAll(cid); if (changed) saveData(DB);
\* await sendListInteractive(cid)
ClearChecks(h, db, f, ck) ==
    LET c == h.msg.chat
        db2 == [db EXCEPT ![c].items = uncheckAll(@)]
        changed == \E k \in DOMAIN db[c].items : db[c].items[k].done
    IN  Ret(db2, (IF changed THEN saveData(db2) ELSE f), ck,
            [Replied(h, "list") EXCEPT !.effect = "cleared"])

\* /done <n> (lines 210-212).
DoneCommand(h, db, f, ck) ==
    LET c == h.msg.chat
        p == ParseInt(cmdReArg(h.msg.text))
    IN  IF IndexInRange(p, Len(db[c].items))
        THEN LET db2 == [db EXCEPT ![c].items[p.val].done = TRUE]
             IN  Ret(db2, saveData(db2), ck,
                     [Replied(h, "list") EXCEPT !.effect = "marked"])
        ELSE Ret(db, f, ck, [Replied(h, "usage") EXCEPT !.oor = ~p.nan])

\* /remove <n> (lines 217-219).
RemoveCommand(h, db, f, ck) ==
    LET c == h.msg.chat
        p == ParseInt(cmdReArg(h.msg.text))
    IN  IF IndexInRange(p, Len(db[c].items))
        THEN LET db2 == [db EXCEPT ![c].items = Splice(@, p.val - 1)]
             IN  Ret(db2, saveData(db2), ck,
                     [Replied(h, "list") EXCEPT !.effect = "removed"])
        ELSE Ret(db, f, ck, [Replied(h, "usage") EXCEPT !.oor = ~p.nan])

\* A view switch that also leaves remove mode.
SetViewLeavesRemoveMode(h, db, ck, on) ==
    LET db2 == [db EXCEPT ![h.msg.chat].compact = on,
                          ![h.msg.chat].removeMode = FALSE]
    IN  Ret(db2, saveData(db2), ck,
            [Replied(h, "list") EXCEPT !.effect = "view"])

\* setCompact(cid, on); saveData(DB); await sendListInteractive(cid)
SetView(h, db, ck, on) ==
    LET db2 == [db EXCEPT ![h.msg.chat].compact = on]
    IN  Ret(db2, saveData(db2), ck,
            [Replied(h, "list") EXCEPT !.effect = "view"])

\* "Done removing" (lines 291-295).
RemoveModeOff(h, db, ck) ==
    LET db2 == [db EXCEPT ![h.msg.chat].removeMode = FALSE]
    IN  Ret(db2, saveData(db2), ck,
            [Replied(h, "removeModeOff") EXCEPT !.effect = "mode"])

\* Lines 327-336: in groups free text is added only when it replies to the
\* bot; then the free-text add.
FreeText(h, db, f, ck) ==
    IF ChatType(h.msg.chat) # "private" /\ h.msg.reply.from # BOT
    THEN Ret(db, f, ck, [h EXCEPT !.pc = "done"])
    ELSE AwaitCanUserAdd(h, "free", db, f, ck)

\* An item button that checks the item (as /done does) instead of flipping it.
ItemTapChecks(h, db, f, ck) ==
    LET c == h.msg.chat
        ds == MatchHashNumber(h.msg.text)
        n == DigitsValue(ds) - 1
    IN  IF ds # <<>> /\ n >= 0 /\ n < Len(db[c].items)
        THEN IF db[c].removeMode
             THEN AwaitCanUserAdd([h EXCEPT !.n = n], "tap", db, f, ck)
             ELSE LET db2 == [db EXCEPT ![c].items[n + 1].done = TRUE]
                  IN  Ret(db2, saveData(db2), ck,
                          [Replied(h, "list") EXCEPT !.effect = "toggled"])
        ELSE FreeText([h EXCEPT !.oor = (ds # <<>>)], db, f, ck)

\* Lines 310-325: an item button, matched by "#N" anywhere in the text.
ItemTap(h, db, f, ck) ==
    LET c == h.msg.chat
        ds == MatchHashNumber(h.msg.text)
        n == DigitsValue(ds) - 1
    IN  IF ds # <<>> /\ n >= 0 /\ n < Len(db[c].items)
        THEN IF db[c].removeMode
             THEN AwaitCanUserAdd([h EXCEPT !.n = n], "tap", db, f, ck)
             ELSE LET db2 == [db EXCEPT ![c].items[n + 1].done = ~@]
                  IN  Ret(db2, saveData(db2), ck,
                          [Replied(h, "list") EXCEPT !.effect = "toggled"])
        ELSE FreeText([h EXCEPT !.oor = (ds # <<>>)], db, f, ck)

\* The 'message' handler after maybeWelcome (lines 268-336).
MessageHandler(h, db, f, ck) ==
    LET text == h.msg.text
    IN  CASE text = <<"Refresh">> -> Ret(db, f, ck, Replied(h, "list"))
          [] text = <<"Clear checks">> -> ClearChecks(h, db, f, ck)
          [] text = <<"Compact view">> -> SetView(h, db, ck, TRUE)
          [] text = <<"Full view">> -> SetView(h, db, ck, FALSE)
          [] text = <<"Remove mode">> -> AwaitCanUserAdd(h, "removeMode", db, f, ck)
          [] text = <<"Done removing">> -> RemoveModeOff(h, db, ck)
          [] text = <<"Add">> -> Ret(db, f, ck, Replied(h, "prompt"))
          [] OTHER ->
                IF h.msg.reply.prompt
                THEN AwaitCanUserAdd(h, "forceReply", db, f, ck)
                ELSE ItemTap(h, db, f, ck)

\* A handler from the return of maybeWelcome to its next platform await.
AfterWelcome(h, db0, f, ck) ==
    LET db == getState(db0, h.msg.chat)
    IN  CASE h.kind = "start" -> Ret(db, f, ck, Replied(h, "help"))
          [] h.kind = "add" -> AwaitCanUserAdd(h, "add", db, f, ck)
          [] h.kind = "list" -> Ret(db, f, ck, Replied(h, "list"))
          [] h.kind = "done" -> DoneCommand(h, db, f, ck)
          [] h.kind = "remove" -> RemoveCommand(h, db, f, ck)
          [] h.kind = "clear" -> ClearChecks(h, db, f, ck)
          [] OTHER -> MessageHandler(h, db, f, ck)

\* allow.indexOf(target.id), from 0; -1 when absent.
IndexOf(seq, x) ==
    LET I == {k \in DOMAIN seq : seq[k] = x}
    IN  IF I = {} THEN -1 ELSE (CHOOSE k \in I : \A j \in I : k <= j) - 1

\* /allow and /deny without the test of isAdmin.
AllowDenyAnyone(h, db0, f, ck, admin) ==
    LET c == h.msg.chat
        target == h.msg.reply.from
        db == getState(db0, c)
        idx == IndexOf(db[c].allow, target)
    IN  IF target = 0 THEN Ret(db0, f, ck, Replied(h, "replyToUser"))
        ELSE IF h.kind = "allow"
        THEN IF idx >= 0 THEN Ret(db, f, ck, Replied(h, "allowed"))
             ELSE LET db2 == [db EXCEPT ![c].allow = Append(@, target)]
                  IN  Ret(db2, saveData(db2), ck,
                          [Replied(h, "allowed") EXCEPT !.effect = "allow"])
        ELSE IF idx >= 0
             THEN LET db2 == [db EXCEPT ![c].allow = Splice(@, idx)]
                  IN  Ret(db2, saveData(db2), ck,
                          [Replied(h, "denied") EXCEPT !.effect = "deny"])
             ELSE Ret(db, f, ck, Replied(h, "notListed"))

\* /allow and /deny once isAdmin has answered (lines 231-236, 240-246).
AllowDeny(h, db0, f, ck, admin) ==
    LET c == h.msg.chat
        target == h.msg.reply.from
        db == getState(db0, c)
        idx == IndexOf(db[c].allow, target)
    IN  IF ~admin THEN Ret(db0, f, ck, Replied(h, "onlyAdmins"))
        ELSE IF target = 0 THEN Ret(db0, f, ck, Replied(h, "replyToUser"))
        ELSE IF h.kind = "allow"
        THEN IF idx >= 0 THEN Ret(db, f, ck, Replied(h, "allowed"))
             ELSE LET db2 == [db EXCEPT ![c].allow = Append(@, target)]
                  IN  Ret(db2, saveData(db2), ck,
                          [Replied(h, "allowed") EXCEPT !.effect = "allow"])
        ELSE IF idx >= 0
             THEN LET db2 == [db EXCEPT ![c].allow = Splice(@, idx)]
                  IN  Ret(db2, saveData(db2), ck,
                          [Replied(h, "denied") EXCEPT !.effect = "deny"])
             ELSE Ret(db, f, ck, Replied(h, "notListed"))

(* ------------------------------ dispatch ------------------------------- *)

\* Which handler an inbound text starts: the bot.onText handler whose
\* regular expression matches, else the 'message' handler unless its filter
\* for command texts (line 262) returns at once ("none").
Dispatch(text) ==
    CASE cmdReMatches("/start", text) -> "start"
      [] cmdReArgMatches("/add", text) -> "add"
      [] cmdReMatches("/list", text) -> "list"
      [] cmdReArgMatches("/done", text) -> "done"
      [] cmdReArgMatches("/remove", text) -> "remove"
      [] cmdReMatches("/clear", text) -> "clear"
      [] cmdReMatches("/allow", text) -> "allow"
      [] cmdReMatches("/deny", text) -> "deny"
      [] cmdReMatches("/whoallowed", text) -> "whoallowed"
      [] OTHER -> IF IsCommandText(text) THEN "none" ELSE "message"

\* The state after a segment that returned r, run by handler number i.
Apply(i, r) ==
    LET h == [r.h EXCEPT !.seq = i]
    IN  /\ DB' = r.db
        /\ file' = r.file
        /\ clock' = r.clock
        /\ fin' = IF Ended(h)
                  THEN [h EXCEPT !.before = getStateValue(DB[h.msg.chat]).items]
                  ELSE NoHandler
        /\ ev' = [k \in 1..(IF i > Len(ev) THEN i ELSE Len(ev)) |->
                    IF k # i THEN ev[k]
                    ELSE IF Ended(h) THEN Summary(h) ELSE h]
        /\ UNCHANGED <<build, proc, run, duty>>

\* const added = ensureChatTracked(cid); await maybeWelcome(cid, added);
\* and, when the chat was welcomed before, the handler up to its next await.
Arrive(m) ==
    LET c == m.chat
        h == NewHandler(m, Dispatch(m.text))
        added == c \notin ActiveChats
        db1 == getState(DB, c)
    IN  /\ ActiveChats' = ActiveChats \cup {c}
        /\ WelcomedThisRun' = WelcomedThisRun \cup {c}
        /\ IF c \in WelcomedThisRun
           THEN Apply(Len(ev) + 1, AfterWelcome(h, db1, file, clock))
           ELSE Apply(Len(ev) + 1,
                      Ret(db1, (IF added THEN saveData(db1) ELSE file), clock,
                          [h EXCEPT !.pc = "welcome1"]))
        /\ UNCHANGED <<tmpFile, ADD_REQUIRE_ALLOWLIST>>

\* The inbound messages that start handler kind.
InboundOf(kind) == {m \in Inbound : Dispatch(m.text) = kind}

\* bot.onText(cmdRe(...)) for start, add, list, done, remove and clear, and
\* bot.on('message') for a text that is no command: an update arrives.
OnStart ==
    \E m \in InboundOf("start") : Len(ev) < MaxEvents /\ Arrive(m)
OnAdd ==
    \E m \in InboundOf("add") : Len(ev) < MaxEvents /\ Arrive(m)
OnList ==
    \E m \in InboundOf("list") : Len(ev) < MaxEvents /\ Arrive(m)
OnDone ==
    \E m \in InboundOf("done") : Len(ev) < MaxEvents /\ Arrive(m)
OnRemove ==
    \E m \in InboundOf("remove") : Len(ev) < MaxEvents /\ Arrive(m)
OnClear ==
    \E m \in InboundOf("clear") : Len(ev) < MaxEvents /\ Arrive(m)
OnMessage ==
    \E m \in InboundOf("message") : Len(ev) < MaxEvents /\ Arrive(m)

\* /allow and /deny start with await isAdmin(cid, msg.from.id).
OnAllowDeny ==
    \E m \in InboundOf("allow") \cup InboundOf("deny") :
        /\ Len(ev) < MaxEvents
        /\ Apply(Len(ev) + 1,
                 Ret(DB, file, clock,
                     [NewHandler(m, Dispatch(m.text)) EXCEPT
                         !.pc = "perm", !.br = Dispatch(m.text)]))
        /\ UNCHANGED <<tmpFile, ActiveChats, WelcomedThisRun,
                       ADD_REQUIRE_ALLOWLIST>>

\* /whoallowed: const allow = getAllow(cid), then only lookups and a send.
OnWhoAllowed ==
    \E m \in InboundOf("whoallowed") :
        /\ Len(ev) < MaxEvents
        /\ Apply(Len(ev) + 1,
                 Ret(getState(DB, m.chat), file, clock,
                     Replied(NewHandler(m, "whoallowed"), "allowlist")))
        /\ UNCHANGED <<tmpFile, ActiveChats, WelcomedThisRun,
                       ADD_REQUIRE_ALLOWLIST>>

\* A command text no bot.onText expression matches: the 'message' handler
\* returns at its filter and nothing else runs.
OnUnmatchedCommand ==
    \E m \in InboundOf("none") :
        /\ Len(ev) < MaxEvents
        /\ Apply(Len(ev) + 1, Ret(DB, file, clock, NewHandler(m, "none")))
        /\ UNCHANGED <<tmpFile, ActiveChats, WelcomedThisRun,
                       ADD_REQUIRE_ALLOWLIST>>

\* maybeWelcome: the welcome message was sent; sendListInteractive is awaited.
WelcomeSent ==
    \E i \in DOMAIN ev :
        /\ ev[i].pc = "welcome1"
        /\ Apply(i, Ret(DB, file, clock,
                        [ev[i] EXCEPT !.pc = "welcome2",
                                      !.replies = @ \cup {"welcome"}]))
        /\ UNCHANGED <<tmpFile, ActiveChats, WelcomedThisRun,
                       ADD_REQUIRE_ALLOWLIST>>

\* maybeWelcome returned: the handler goes on to its next await.
WelcomeListSent ==
    \E i \in DOMAIN ev :
        /\ ev[i].pc = "welcome2"
        /\ Apply(i, AfterWelcome([ev[i] EXCEPT !.replies = @ \cup {"welcomeList"}],
                                 DB, file, clock))
        /\ UNCHANGED <<tmpFile, ActiveChats, WelcomedThisRun,
                       ADD_REQUIRE_ALLOWLIST>>

\* A send awaited in maybeWelcome rejected: nothing catches it, the handler
\* ends there ('unhandledRejection' is only logged).
WelcomeSendFailed ==
    \E i \in DOMAIN ev :
        /\ ev[i].pc \in {"welcome1", "welcome2"}
        /\ Apply(i, Ret(DB, file, clock, [ev[i] EXCEPT !.pc = "failed"]))
        /\ UNCHANGED <<tmpFile, ActiveChats, WelcomedThisRun,
                       ADD_REQUIRE_ALLOWLIST>>

\* getChatMember answered (or threw): isAdmin returns and the handler goes on.
MemberLookup ==
    \E i \in DOMAIN ev, lookupOk \in BOOLEAN :
        /\ ev[i].pc = "perm"
        /\ LET h == ev[i]
               admin == isAdmin(h.msg.chat, h.msg.from, lookupOk)
           IN  IF h.kind \in {"allow", "deny"}
               THEN Apply(i, AllowDeny(h, DB, file, clock, admin))
               ELSE Apply(i, AfterCanUserAdd(h, DB, file, clock,
                                             canUserAdd(h.msg, DB, admin)))
        /\ UNCHANGED <<tmpFile, ActiveChats, WelcomedThisRun,
                       ADD_REQUIRE_ALLOWLIST>>

(* ---------------------------- specification ---------------------------- *)

\* Documents an earlier run (of this or of an older variant) left on disk.
InitDocs ==
    {[c \in Chats |->
        IF c = GroupChat
        THEN ScopeState(<<Item(<<"a">>, FALSE), Item(<<"b">>, TRUE)>>,
                        <<2>>, TRUE, FALSE)
        ELSE LegacyScope(<<Item(<<"a">>, FALSE)>>)],
     [c \in Chats |->
        IF c = GroupChat
        THEN LegacyScope(<<Item(<<"a">>, FALSE), Item(<<"b">>, FALSE)>>)
        ELSE ScopeState(<<Item(<<"a">>, TRUE)>>, <<>>, TRUE, FALSE)]}

InitFiles == {MissingFile} \cup {Serialize(d) : d \in InitDocs}

Init ==
    \E f \in InitFiles :
        /\ DB = loadData(f).doc
        /\ file = loadData(f).file
        /\ tmpFile = MissingFile
        /\ ActiveChats = {c \in Chats : loadData(f).doc[c].shape # "none"}
        /\ WelcomedThisRun = {}
        /\ ADD_REQUIRE_ALLOWLIST \in BOOLEAN
        /\ ev = <<>>
        /\ fin = NoHandler
        /\ clock = 0
        /\ build = "part_006"
        /\ proc = "up"
        /\ run = NoRun
        /\ duty = NoDuty

Next ==
    \/ OnStart
    \/ OnAdd
    \/ OnList
    \/ OnDone
    \/ OnRemove
    \/ OnClear
    \/ OnMessage
    \/ OnAllowDeny
    \/ OnWhoAllowed
    \/ OnUnmatchedCommand
    \/ WelcomeSent
    \/ WelcomeListSent
    \/ WelcomeSendFailed
    \/ MemberLookup

Spec == Init /\ [][Next]_vars

(* -------------------------- the durable store -------------------------- *)
\* load and save at the grain of the file system: a writeFileSync opens its
\* target truncated and then writes it, a renameSync replaces its target in
\* one step, and the process can die between any two of these.  The
\* document handed to a save is whatever the handlers made of DB; here it is
\* any document of StoreDocs.  Two programs: part_006 (loadData, saveData)
\* and part_004 (load, save).

StoreBuilds == {"part_006", "part_004"}

\* The documents saved: the empty one, those of an earlier run, and those
\* with a chat's entry brought to the record shape.
StoreDocs ==
    {EmptyDoc} \cup InitDocs \cup {getState(d, c) : d \in InitDocs, c \in Chats}

\* part_004 load(): try { return JSON.parse(readFileSync) } catch { return {} }
load(f) ==
    IF ReadThrows(f)
    THEN [doc |-> EmptyDoc, file |-> f]
    ELSE [doc |-> Parse(f), file |-> f]

\* The process starts: const DB = load() / let DB = loadData().
StoreStart ==
    /\ proc = "down"
    /\ LET r == IF build = "part_004" THEN load(file) ELSE loadData(file)
       IN  DB' = r.doc /\ file' = r.file
    /\ proc' = "up"
    /\ UNCHANGED <<tmpFile, ActiveChats, WelcomedThisRun, ADD_REQUIRE_ALLOWLIST,
                   ev, fin, clock, build, run, duty>>

\* save(db) / saveData(obj) begins: writeFileSync has opened its target,
\* DATA_PATH in part_004 and DATA_PATH + '.tmp' in part_006.
SaveOpen ==
    \E d \in StoreDocs :
        /\ proc = "up"
        /\ DB' = d
        /\ IF build = "part_004"
           THEN file' = PartialFile /\ UNCHANGED tmpFile
           ELSE tmpFile' = PartialFile /\ UNCHANGED file
        /\ proc' = "open"
        /\ UNCHANGED <<ActiveChats, WelcomedThisRun, ADD_REQUIRE_ALLOWLIST,
                       ev, fin, clock, build, run, duty>>

\* writeFileSync returns: its target holds the whole text.  save() of
\* part_004 is over; saveData of part_006 goes on to the rename.
SaveWritten ==
    /\ proc = "open"
    /\ IF build = "part_004"
       THEN file' = Serialize(DB) /\ proc' = "up" /\ UNCHANGED tmpFile
       ELSE tmpFile' = Serialize(DB) /\ proc' = "written" /\ UNCHANGED file
    /\ UNCHANGED <<DB, ActiveChats, WelcomedThisRun, ADD_REQUIRE_ALLOWLIST,
                   ev, fin, clock, build, run, duty>>

\* fs.renameSync(tmp, DATA_PATH)
SaveRename ==
    /\ proc = "written"
    /\ file' = tmpFile
    /\ tmpFile' = MissingFile
    /\ proc' = "up"
    /\ UNCHANGED <<DB, ActiveChats, WelcomedThisRun, ADD_REQUIRE_ALLOWLIST,
                   ev, fin, clock, build, run, duty>>

\* The process dies; its memory is gone, the files stay as they are.
Crash ==
    /\ proc \in {"up", "open", "written"}
    /\ proc' = "down"
    /\ DB' = EmptyDoc
    /\ UNCHANGED <<file, tmpFile, ActiveChats, WelcomedThisRun,
                   ADD_REQUIRE_ALLOWLIST, ev, fin, clock, build, run, duty>>

InitStore ==
    /\ build \in StoreBuilds
    /\ proc = "down"
    /\ DB = EmptyDoc
    /\ file \in {MissingFile, PartialFile} \cup {Serialize(d) : d \in StoreDocs}
    /\ tmpFile = MissingFile
    /\ ActiveChats = {}
    /\ WelcomedThisRun = {}
    /\ ADD_REQUIRE_ALLOWLIST = FALSE
    /\ ev = <<>>
    /\ fin = NoHandler
    /\ clock = 0
    /\ run = NoRun
    /\ duty = NoDuty

NextStore ==
    \/ StoreStart
    \/ SaveOpen
    \/ SaveWritten
    \/ SaveRename
    \/ Crash

SpecStore == InitStore /\ [][NextStore]_vars

(* ------------------------- checklist.js, lines 1-235 ------------------- *)
\* The program of checklist.js whose document maps a chat to a bare array of
\* items and whose buttons are inline (callback queries).  Nothing in it
\* asks for permission.  A callback query q is carried as a message whose
\* text is q.data.

\* const getList = (cid) => (DB[cid] ||= [])
ChecklistGetList(db, cid) ==
    IF db[cid].shape = "none" THEN [db EXCEPT ![cid] = LegacyScope(<<>>)] ELSE db

\* DB[cid] = []
ChecklistEmptied(db, cid) == [db EXCEPT ![cid] = LegacyScope(<<>>)]

\* const [action, arg] = (q.data || '').split(':')
CallbackAction(data) == Head(data)
CallbackArg(data) == IF Len(data) > 2 THEN SubSeq(data, 3, Len(data)) ELSE <<>>

\* /^\/(start|add|list|done|remove|clear)/i.test(msg.text)
ChecklistIsCommandText(text) ==
    text # <<>>
    /\ Head(text) \in {"/start", "/add", "/list", "/done", "/remove", "/clear"}

\* Which handler an inbound text starts.
ChecklistDispatch(text) ==
    CASE cmdReMatches("/start", text) -> "start"
      [] cmdReArgMatches("/add", text) -> "add"
      [] cmdReMatches("/list", text) -> "list"
      [] cmdReArgMatches("/done", text) -> "done"
      [] cmdReArgMatches("/remove", text) -> "remove"
      [] cmdReMatches("/clear", text) -> "clear"
      [] OTHER -> IF ChecklistIsCommandText(text) THEN "none" ELSE "message"

\* /add <text> (lines 142-145) and the non-command text (lines 209-211).
ChecklistAdd(h, db, f, ck, text, usage) ==
    IF text = <<>>
    THEN Ret(db, f, ck, IF usage THEN Replied(h, "usage") ELSE [h EXCEPT !.pc = "done"])
    ELSE PushItem(h, db, ck, text)

\* /done <n> (lines 162-171).
ChecklistDone(h, db, f, ck) ==
    LET c == h.msg.chat
        p == ParseInt(cmdReArg(h.msg.text))
    IN  IF IndexInRange(p, Len(db[c].items))
        THEN LET db2 == [db EXCEPT ![c].items[p.val].done = TRUE]
             IN  Ret(db2, saveData(db2), ck,
                     [Replied(h, "list") EXCEPT !.effect = "marked"])
        ELSE Ret(db, f, ck, [Replied(h, "usage") EXCEPT !.oor = ~p.nan])

\* /remove <n> (lines 179-188).
ChecklistRemove(h, db, f, ck) ==
    LET c == h.msg.chat
        p == ParseInt(cmdReArg(h.msg.text))
    IN  IF IndexInRange(p, Len(db[c].items))
        THEN LET db2 == [db EXCEPT ![c].items = Splice(@, p.val - 1)]
             IN  Ret(db2, saveData(db2), ck,
                     [Replied(h, "list") EXCEPT !.effect = "removed"])
        ELSE Ret(db, f, ck, [Replied(h, "usage") EXCEPT !.oor = ~p.nan])

\* A /clear that does delete DB[cid].
ChecklistClearDeletes(h, db, ck) ==
    LET db2 == [db EXCEPT ![h.msg.chat] = NoScope]
    IN  Ret(db2, saveData(db2), ck,
            [Replied(h, "list") EXCEPT !.effect = "cleared"])

\* /clear (lines 197-198) and the clear_all button (line 226):
\* DB[cid] = []; saveData(DB)
ChecklistClear(h, db, ck) ==
    LET db2 == ChecklistEmptied(db, h.msg.chat)
    IN  Ret(db2, saveData(db2), ck,
            [Replied(h, "list") EXCEPT !.effect = "cleared"])

\* The callback_query handler after maybeWelcome (lines 221-230): items[i]
\* is there for i from 0 to items.length - 1.
ChecklistCallback(h, db, f, ck) ==
    LET c == h.msg.chat
        action == CallbackAction(h.msg.text)
        p == ParseInt(CallbackArg(h.msg.text))
        found == ~p.nan /\ p.val < Len(db[c].items)
    IN  CASE action = "t" ->
                IF found
                THEN LET db2 == [db EXCEPT ![c].items[p.val + 1].done = ~@]
                     IN  Ret(db2, saveData(db2), ck,
                             [Replied(h, "list") EXCEPT !.effect = "toggled"])
                ELSE Ret(db, f, ck, [Replied(h, "list") EXCEPT !.oor = ~p.nan])
          [] action = "rm" ->
                IF found
                THEN LET db2 == [db EXCEPT ![c].items = Splice(@, p.val)]
                     IN  Ret(db2, saveData(db2), ck,
                             [Replied(h, "list") EXCEPT !.effect = "removed"])
                ELSE Ret(db, f, ck, [Replied(h, "list") EXCEPT !.oor = ~p.nan])
          [] action = "clear_all" -> ChecklistClear(h, db, ck)
          [] action = "refresh" -> Ret(db, f, ck, Replied(h, "list"))
          [] action = "add_prompt" -> Ret(db, f, ck, Replied(h, "prompt"))
          [] OTHER -> Ret(db, f, ck, [h EXCEPT !.pc = "done"])

\* A handler from the return of maybeWelcome to its end: what it sends after
\* its save changes nothing.
ChecklistAfterWelcome(h, db0, f, ck) ==
    LET db == ChecklistGetList(db0, h.msg.chat)
    IN  CASE h.kind = "start" -> Ret(db, f, ck, Replied(h, "help"))
          [] h.kind = "add" ->
                ChecklistAdd(h, db, f, ck, Trim(cmdReArg(h.msg.text)), TRUE)
          [] h.kind = "list" -> Ret(db, f, ck, Replied(h, "list"))
          [] h.kind = "done" -> ChecklistDone(h, db, f, ck)
          [] h.kind = "remove" -> ChecklistRemove(h, db, f, ck)
          [] h.kind = "clear" -> ChecklistClear(h, db, ck)
          [] h.kind = "callback" -> ChecklistCallback(h, db, f, ck)
          [] OTHER -> ChecklistAdd(h, db, f, ck, Trim(h.msg.text), FALSE)

\* What arrives: texts and, as callback queries, the data of inline buttons
\* (t:8 and rm:8 are rows of a keyboard sent when the list was longer).
ChecklistTexts ==
    {<<"/start">>, <<"/list">>, <<"/clear">>, <<"/add", " ", "c">>, <<"/add">>,
     <<"/done", " ", "1">>, <<"/done", " ", "9">>, <<"/remove", " ", "1">>,
     <<"c">>}

ChecklistData ==
    {<<"t", ":", "0">>, <<"t", ":", "8">>, <<"rm", ":", "0">>, <<"rm", ":", "8">>,
     <<"clear_all">>, <<"refresh">>, <<"add_prompt">>}

\* const newlyTracked = ensureChatTracked(cid); await maybeWelcome(cid,
\* newlyTracked); and, when the chat was welcomed before, the rest.
ChecklistArrive(m, kind) ==
    LET c == m.chat
        h == NewHandler(m, kind)
        added == c \notin ActiveChats \/ DB[c].shape = "none"
        db1 == ChecklistGetList(DB, c)
    IN  /\ ActiveChats' = ActiveChats \cup {c}
        /\ WelcomedThisRun' = WelcomedThisRun \cup {c}
        /\ IF c \in WelcomedThisRun
           THEN Apply(Len(ev) + 1, ChecklistAfterWelcome(h, db1, file, clock))
           ELSE Apply(Len(ev) + 1,
                      Ret(db1, (IF added THEN saveData(db1) ELSE file), clock,
                          [h EXCEPT !.pc = "welcome1"]))
        /\ UNCHANGED <<tmpFile, ADD_REQUIRE_ALLOWLIST>>

\* bot.onText(cmdRe(...)) and bot.on('message'): a text some handler takes.
ChecklistOnText ==
    \E c \in Chats, t \in ChecklistTexts :
        /\ ChecklistDispatch(t) # "none"
        /\ Len(ev) < MaxEvents
        /\ ChecklistArrive(Message(c, 2, t, NoReply), ChecklistDispatch(t))

\* A command text no expression matches; bot.on('message') returns at its
\* filter.
ChecklistOnUnmatchedCommand ==
    \E c \in Chats, t \in ChecklistTexts :
        /\ ChecklistDispatch(t) = "none"
        /\ Len(ev) < MaxEvents
        /\ Apply(Len(ev) + 1,
                 Ret(DB, file, clock, NewHandler(Message(c, 2, t, NoReply), "none")))
        /\ UNCHANGED <<tmpFile, ActiveChats, WelcomedThisRun,
                       ADD_REQUIRE_ALLOWLIST>>

\* bot.on('callback_query')
ChecklistOnCallbackQuery ==
    \E c \in Chats, d \in ChecklistData :
        /\ Len(ev) < MaxEvents
        /\ ChecklistArrive(Message(c, 2, d, NoReply), "callback")

\* maybeWelcome (lines 96-108): one of its three awaited sends is through
\* (STARTUP_REMINDER at its default); after the third the handler goes on.
ChecklistWelcomeSent ==
    \E i \in DOMAIN ev :
        /\ ev[i].pc \in {"welcome1", "welcome2", "welcome3"}
        /\ CASE ev[i].pc = "welcome1" ->
                    Apply(i, Ret(DB, file, clock,
                                 [ev[i] EXCEPT !.pc = "welcome2",
                                               !.replies = @ \cup {"welcome"}]))
             [] ev[i].pc = "welcome2" ->
                    Apply(i, Ret(DB, file, clock,
                                 [ev[i] EXCEPT !.pc = "welcome3",
                                               !.replies = @ \cup {"welcomeList"}]))
             [] OTHER ->
                    Apply(i, ChecklistAfterWelcome(
                                 [ev[i] EXCEPT !.replies = @ \cup {"reminder"}],
                                 DB, file, clock))
        /\ UNCHANGED <<tmpFile, ActiveChats, WelcomedThisRun,
                       ADD_REQUIRE_ALLOWLIST>>

\* A send awaited in maybeWelcome rejected: the handler ends there, logged
\* by 'unhandledRejection' or by the catch of the callback_query handler.
ChecklistWelcomeSendFailed ==
    \E i \in DOMAIN ev :
        /\ ev[i].pc \in {"welcome1", "welcome2", "welcome3"}
        /\ Apply(i, Ret(DB, file, clock, [ev[i] EXCEPT !.pc = "failed"]))
        /\ UNCHANGED <<tmpFile, ActiveChats, WelcomedThisRun,
                       ADD_REQUIRE_ALLOWLIST>>

\* Documents an earlier run of this program left on disk.
ChecklistInitDocs ==
    {[c \in Chats |->
        IF c = GroupChat
        THEN LegacyScope(<<Item(<<"a">>, FALSE), Item(<<"b">>, TRUE)>>)
        ELSE NoScope],
     [c \in Chats |->
        IF c = GroupChat
        THEN LegacyScope(<<>>)
        ELSE LegacyScope(<<Item(<<"a">>, TRUE)>>)]}

InitChecklist ==
    \E f \in {MissingFile, PartialFile} \cup {Serialize(d) : d \in ChecklistInitDocs} :
        /\ DB = loadData(f).doc
        /\ file = loadData(f).file
        /\ tmpFile = MissingFile
        /\ ActiveChats = {c \in Chats : loadData(f).doc[c].shape # "none"}
        /\ WelcomedThisRun = {}
        /\ ADD_REQUIRE_ALLOWLIST = FALSE
        /\ ev = <<>>
        /\ fin = NoHandler
        /\ clock = 0
        /\ build = "checklist.js"
        /\ proc = "up"
        /\ run = NoRun
        /\ duty = NoDuty

NextChecklist ==
    \/ ChecklistOnText
    \/ ChecklistOnUnmatchedCommand
    \/ ChecklistOnCallbackQuery
    \/ ChecklistWelcomeSent
    \/ ChecklistWelcomeSendFailed

SpecChecklist == InitChecklist /\ [][NextChecklist]_vars

(* ------------------------- main and its timers ------------------------- *)
LifeBuilds == {"part_006", "checklist.js", "part_003"}

\* process.env.DURATION_MINUTES and process.env.SLEEP_WARNING_SECONDS
DurationMinutes == {0, 1, 30}
SleepWarningSeconds == {0, 60}

\* setTimeout(fn, due): due in seconds after main() armed it.
Timer(name, due) == [name |-> name, due |-> due]

\* The destinations of a broadcast; CHAT_ID is the group in the duty
\* program and unset in the other two.
getTargets == IF build = "part_003" THEN {GroupChat} ELSE ActiveChats

\* The setTimeout calls of main(), in the order main() makes them.
ArmTimers(b, dur, lead) ==
    LET durS == dur * 60
        warnS == IF durS - lead > 0 THEN durS - lead ELSE 0
        marks == CASE b = "part_006" -> <<20, 25>>
                   [] b = "checklist.js" ->
                        SelectSeq(<<20, 25>>, LAMBDA m : dur <= 0 \/ dur > m)
                   [] OTHER ->
                        SelectSeq(<<30, 45, 50>>,
                                  LAMBDA m : ~(dur > 0 /\ m >= dur))
        reminders == [k \in DOMAIN marks |-> Timer("reminder", marks[k] * 60)]
        warn == IF b # "checklist.js" /\ warnS > 0
                THEN <<Timer("warn", warnS)>> ELSE <<>>
    IN  reminders \o (IF dur > 0 THEN warn \o <<Timer("stop", durS)>> ELSE <<>>)

\* The timer that fires next: the earliest due, the earliest armed of those.
NextTimer(ts) ==
    CHOOSE i \in DOMAIN ts :
        \A j \in DOMAIN ts :
            ts[i].due < ts[j].due \/ (ts[i].due = ts[j].due /\ i <= j)

RemoveAt(seq, i) == [k \in 1..(Len(seq) - 1) |-> IF k < i THEN seq[k] ELSE seq[k + 1]]

\* process.exit(code)
Exit(r, code) ==
    [r EXCEPT !.phase = "Stopped", !.exit = code, !.timers = <<>>, !.jobs = <<>>]

\* main() after await broadcastAwake(): the timers are armed.
MainArmed(r) ==
    [r EXCEPT !.main = "armed",
              !.timers = ArmTimers(build, r.DURATION_MINUTES,
                                   r.SLEEP_WARNING_SECONDS)]

\* resetAllChatsChecks(): the document afterwards, and its return value.
resetAllChatsChecks(db) ==
    [c \in Chats |->
        IF db[c].shape = "none" THEN db[c]
        ELSE [getStateValue(db[c]) EXCEPT !.items = uncheckAll(@)]]

ResetChanged(db) ==
    \E c \in Chats : \E k \in DOMAIN db[c].items : db[c].items[k].done

\* The send to cid awaited by broadcast j settles.  A rejection is caught in
\* a guarded loop; otherwise it ends the loop and rejects its caller:
\* main(), whose catch exits with 1, or a timer callback that drops it.
Settle(r, j, cid, ok) ==
    LET b == r.jobs[j]
        b1 == [b EXCEPT !.todo = @ \ {cid}, !.tried = @ \cup {cid}]
        b2 == IF ok \/ b.guarded THEN b1 ELSE [b1 EXCEPT !.threw = TRUE]
        over == b2.threw \/ b2.todo = {}
        r1 == IF over
              THEN [r EXCEPT !.jobs = RemoveAt(@, j), !.ended = b2]
              ELSE [r EXCEPT !.jobs[j] = b2]
    IN  IF ~over THEN r1
        ELSE IF b.kind = "awake"
        THEN IF b2.threw
             THEN Exit([r1 EXCEPT !.main = "fatal"], "1")
             ELSE MainArmed(r1)
        ELSE IF b2.threw THEN [r1 EXCEPT !.rejected = TRUE]
        ELSE r1

LifeUnchanged ==
    UNCHANGED <<tmpFile, ActiveChats, WelcomedThisRun, ADD_REQUIRE_ALLOWLIST,
                ev, fin, clock, build, proc, duty>>

\* bot.getMe() or bot.startPolling() rejects: main()'s catch exits with 1.
StartupFailed ==
    /\ run.main = "polling" /\ run.exit = "none"
    /\ run' = Exit([run EXCEPT !.main = "failed"], "1")
    /\ UNCHANGED <<DB, file>>
    /\ LifeUnchanged

\* await bot.startPolling() resolves; main() goes on to the awake broadcast
\* and, when that has no destination, to arming the timers.
PollingStarted ==
    /\ run.main = "polling" /\ run.exit = "none"
    /\ LET r1 == [run EXCEPT !.phase = "Running"]
       IN  run' = IF getTargets = {} THEN MainArmed(r1)
                  ELSE [r1 EXCEPT
                          !.main = "awake",
                          !.jobs = <<Broadcast("awake", getTargets,
                                               build # "part_003")>>]
    /\ UNCHANGED <<DB, file>>
    /\ LifeUnchanged

\* A send of a broadcast resolves.
DeliverySent ==
    \E j \in DOMAIN run.jobs : \E cid \in run.jobs[j].todo :
        /\ run.exit = "none"
        /\ run' = Settle(run, j, cid, TRUE)
        /\ UNCHANGED <<DB, file>>
        /\ LifeUnchanged

\* A send of a broadcast rejects.
DeliveryFailed ==
    \E j \in DOMAIN run.jobs : \E cid \in run.jobs[j].todo :
        /\ run.exit = "none"
        /\ run' = Settle(run, j, cid, FALSE)
        /\ UNCHANGED <<DB, file>>
        /\ LifeUnchanged

\* setTimeout(() => sendReminder(...)) fires.  Only checklist.js loops
\* without a try/catch.
ReminderFires ==
    /\ run.exit = "none" /\ run.timers # <<>>
    /\ LET i == NextTimer(run.timers)
           r1 == [run EXCEPT !.timers = RemoveAt(@, i)]
       IN  /\ run.timers[i].name = "reminder"
           /\ run' = IF getTargets = {} THEN r1
                     ELSE [r1 EXCEPT
                             !.jobs = Append(@, Broadcast("reminder", getTargets,
                                                          build # "checklist.js"))]
    /\ UNCHANGED <<DB, file>>
    /\ LifeUnchanged

\* setTimeout(() => sendSleepWarning(), warnMs) fires.
WarningFires ==
    /\ run.exit = "none" /\ run.timers # <<>>
    /\ LET i == NextTimer(run.timers)
           r1 == [run EXCEPT !.timers = RemoveAt(@, i),
                             !.phase = "WarningIssued",
                             !.warnings = @ + 1]
       IN  /\ run.timers[i].name = "warn"
           /\ run' = IF getTargets = {} THEN r1
                     ELSE [r1 EXCEPT
                             !.jobs = Append(@, Broadcast("warning", getTargets,
                                                          TRUE))]
    /\ UNCHANGED <<DB, file>>
    /\ LifeUnchanged

\* The auto-stop timer fires: the callback up to its first await.
\*   part_006      if (resetAllChatsChecks()) saveData(DB); await stopPolling
\*   checklist.js  await stopPolling
\*   part_003      gracefulShutdown: await announceSleepSummaryToGroup()
StopFires ==
    /\ run.exit = "none" /\ run.timers # <<>>
    /\ LET i == NextTimer(run.timers)
           r1 == [run EXCEPT !.timers = RemoveAt(@, i), !.by = "timer"]
           db1 == resetAllChatsChecks(DB)
       IN  /\ run.timers[i].name = "stop"
           /\ CASE build = "part_006" ->
                     \E saveOk \in BOOLEAN :
                        /\ DB' = db1
                        /\ IF ~ResetChanged(DB)
                           THEN /\ file' = file
                                /\ run' = [r1 EXCEPT !.stop = "stopPolling"]
                           ELSE IF saveOk
                           THEN /\ file' = saveData(db1)
                                /\ run' = [r1 EXCEPT !.stop = "stopPolling"]
                           ELSE /\ file' = file
                                /\ run' = [r1 EXCEPT !.stop = "threw",
                                                     !.rejected = TRUE]
                [] build = "checklist.js" ->
                     /\ run' = [r1 EXCEPT !.stop = "stopPolling"]
                     /\ UNCHANGED <<DB, file>>
                [] OTHER ->
                     /\ run' = [r1 EXCEPT !.stop = "summary", !.summaries = @ + 1]
                     /\ UNCHANGED <<DB, file>>
    /\ LifeUnchanged

\* try { await bot.stopPolling(); } catch {} is over, whichever way, and the
\* callback runs to its end: process.exit(0), in checklist.js after a
\* saveData(DB) that is outside the try.
StopPollingSettled ==
    /\ run.exit = "none" /\ run.stop = "stopPolling"
    /\ IF build = "checklist.js"
       THEN \E saveOk \in BOOLEAN :
               IF saveOk
               THEN /\ file' = saveData(DB)
                    /\ run' = Exit([run EXCEPT !.stop = "done"], "0")
               ELSE /\ file' = file
                    /\ run' = [run EXCEPT !.stop = "threw", !.rejected = TRUE]
       ELSE /\ file' = file
            /\ run' = Exit([run EXCEPT !.stop = "done"], "0")
    /\ UNCHANGED DB
    /\ LifeUnchanged

\* gracefulShutdown: the summary send settled, resolved or caught;
\* process.exit(0).
SummarySettled ==
    /\ run.exit = "none" /\ run.stop = "summary"
    /\ run' = Exit([run EXCEPT !.stop = "done", !.summary = TRUE], "0")
    /\ UNCHANGED <<DB, file>>
    /\ LifeUnchanged

\* process.on('SIGTERM') / process.on('SIGINT')
\*   part_006      try { if (resetAllChatsChecks()) saveData(DB); } catch {}
\*   checklist.js  try { saveData(DB); } catch {}
\*   part_003      gracefulShutdown(reason): the routine keeps no record that
\*                 it is already running, so a signal that arrives while an
\*                 earlier call awaits its summary starts the routine again
\*                 and issues the summary again
Signal ==
    /\ run.exit = "none"
    /\ LET r1 == [run EXCEPT !.by = "signal"]
           r0 == Exit([r1 EXCEPT !.stop = "done"], "0")
           db1 == resetAllChatsChecks(DB)
       IN  CASE build = "part_006" ->
                  \E saveOk \in BOOLEAN :
                     /\ DB' = db1
                     /\ file' = IF ResetChanged(DB) /\ saveOk
                                THEN saveData(db1) ELSE file
                     /\ run' = r0
             [] build = "checklist.js" ->
                  \E saveOk \in BOOLEAN :
                     /\ file' = IF saveOk THEN saveData(DB) ELSE file
                     /\ run' = r0
                     /\ UNCHANGED DB
             [] OTHER ->
                  /\ run.summaries < MaxShutdowns
                  /\ run' = [r1 EXCEPT !.stop = "summary", !.summaries = @ + 1]
                  /\ UNCHANGED <<DB, file>>
    /\ LifeUnchanged

\* part_006: while the timer callback awaits bot.stopPolling() the event
\* loop runs whatever is ready.  A /done 1 of a tracked chat that was
\* suspended in a send of maybeWelcome when the timer fired resumes: it
\* marks the item and saves (lines 205-213).
HandlerResumedInStop ==
    \E c \in Chats :
        LET m == Message(c, 2, <<"/done", " ", "1">>, NoReply)
            r == AfterWelcome(NewHandler(m, "done"), DB, file, clock)
        IN  /\ build = "part_006"
            /\ run.exit = "none" /\ run.stop = "stopPolling"
            /\ DB[c].shape # "none"
            /\ r.db # DB
            /\ DB' = r.db
            /\ file' = r.file
            /\ UNCHANGED run
    /\ LifeUnchanged

InitLife ==
    \E b \in LifeBuilds, d \in DurationMinutes, w \in SleepWarningSeconds :
        \E f \in CASE b = "part_006" -> InitFiles
                   [] b = "checklist.js" ->
                        {MissingFile} \cup {Serialize(x) : x \in ChecklistInitDocs}
                   [] OTHER -> {MissingFile} :
            /\ build = b
            /\ DB = loadData(f).doc
            /\ file = loadData(f).file
            /\ tmpFile = MissingFile
            /\ ActiveChats = {c \in Chats : loadData(f).doc[c].shape # "none"}
            /\ WelcomedThisRun = {}
            /\ ADD_REQUIRE_ALLOWLIST = FALSE
            /\ ev = <<>>
            /\ fin = NoHandler
            /\ clock = 0
            /\ proc = "up"
            /\ run = [NoRun EXCEPT !.DURATION_MINUTES = d,
                                   !.SLEEP_WARNING_SECONDS = w]
            /\ duty = NoDuty

NextLife ==
    \/ StartupFailed
    \/ PollingStarted
    \/ DeliverySent
    \/ DeliveryFailed
    \/ ReminderFires
    \/ WarningFires
    \/ StopFires
    \/ StopPollingSettled
    \/ SummarySettled
    \/ Signal
    \/ HandlerResumedInStop

SpecLife == InitLife /\ [][NextLife]_vars

(* ------------------------------ start duty ----------------------------- *)
\* bot.on('callback_query') for the "Start Duty" button of the group, in
\* checklist.js (lines 770-822), part_005 (195-228) and part_004 (97-111).
DutyBuilds == {"checklist.js", "part_005", "part_004"}

\* The callback query of principal u.
StartDutyQuery(u) ==
    NewHandler(Message(GroupChat, u, <<"start_duty">>, NoReply), "start_duty")

\* The handler up to its first await: answerCallbackQuery, or in part_004
\* the first direct message.
StartDuty(b, h) == [h EXCEPT !.pc = IF b = "part_004" THEN "dm1" ELSE "answer"]

\* The document once the handler has passed its synchronous writes:
\* setActiveDuty(fromId, groupId) after the answer in checklist.js,
\* st.dmLinked / st.dutyUserId or DB.dmLink at arrival in the other two.
DutyDoc(b, h, d) ==
    CASE b = "checklist.js" ->
            IF h.pc = "answer" THEN [d EXCEPT !.active = h.msg.from] ELSE d
      [] b = "part_005" ->
            [d EXCEPT !.active = h.msg.from, !.dmLinked = @ \cup {h.msg.from}]
      [] OTHER -> [d EXCEPT !.dmLinked = @ \cup {h.msg.from}]

\* The group notice settled: sent, or rejected.
NoticeSettled(h, ok) ==
    [h EXCEPT !.replies = @ \cup {IF ok THEN "notice" ELSE "noticeRejected"}]

\* The direct message could not be delivered: the group notice is awaited.
DmFailed(h) == [h EXCEPT !.effect = "dmFailed", !.pc = "notice"]

\* The call awaited at h.pc settled (ok: it resolved): the handler up to
\* its next await, its return, or its throw (pc "failed").
DutyStep(b, h, ok) ==
    CASE b = "checklist.js" ->
            CASE h.pc = "answer" -> [h EXCEPT !.pc = "name"]
              [] h.pc = "name" -> [h EXCEPT !.pc = "started"]
              [] h.pc = "started" ->
                    [h EXCEPT !.pc = "dm1",
                              !.replies = IF ok THEN @ \cup {"started"} ELSE @]
              [] h.pc = "dm1" -> IF ok THEN [h EXCEPT !.pc = "dm2"] ELSE DmFailed(h)
              [] h.pc = "dm2" -> IF ok THEN [h EXCEPT !.pc = "dm3"] ELSE DmFailed(h)
              [] h.pc = "dm3" -> IF ok THEN [h EXCEPT !.pc = "done"] ELSE DmFailed(h)
              [] OTHER -> [NoticeSettled(h, ok) EXCEPT !.pc = "done"]
      [] b = "part_005" ->
            CASE h.pc = "answer" -> [h EXCEPT !.pc = "dm1"]
              [] h.pc = "dm1" -> IF ok THEN [h EXCEPT !.pc = "dm2"] ELSE DmFailed(h)
              [] h.pc = "dm2" -> [h EXCEPT !.pc = "done"]
              [] OTHER -> [NoticeSettled(h, ok) EXCEPT !.pc = "done"]
      [] OTHER ->
            CASE h.pc = "dm1" -> IF ok THEN [h EXCEPT !.pc = "dm2"] ELSE DmFailed(h)
              [] h.pc = "dm2" -> IF ok THEN [h EXCEPT !.pc = "answer"] ELSE DmFailed(h)
              [] h.pc = "notice" ->
                    [NoticeSettled(h, ok) EXCEPT
                        !.pc = IF ok THEN "answer" ELSE "failed"]
              [] OTHER -> [h EXCEPT !.pc = IF ok THEN "done" ELSE "failed"]

\* The step of invocation i: its record, and the duty document.
DutyApply(i, h0, d) ==
    LET h == [h0 EXCEPT !.seq = i]
    IN  /\ duty' = d
        /\ fin' = IF Ended(h) THEN h ELSE NoHandler
        /\ ev' = [k \in 1..(IF i > Len(ev) THEN i ELSE Len(ev)) |->
                    IF k # i THEN ev[k]
                    ELSE IF Ended(h) THEN Summary(h) ELSE h]
        /\ UNCHANGED <<DB, file, tmpFile, ActiveChats, WelcomedThisRun,
                       ADD_REQUIRE_ALLOWLIST, clock, build, proc, run>>

\* A principal taps "Start Duty".
StartDutyTapped ==
    \E u \in Users :
        /\ Len(ev) < MaxEvents
        /\ DutyApply(Len(ev) + 1, StartDuty(build, StartDutyQuery(u)),
                     IF build = "checklist.js" THEN duty
                     ELSE DutyDoc(build, StartDutyQuery(u), duty))

\* The platform call a start-duty handler awaits resolves.
DutyCallResolved ==
    \E i \in DOMAIN ev :
        /\ ev[i].kind = "start_duty" /\ ~Ended(ev[i])
        /\ DutyApply(i, DutyStep(build, ev[i], TRUE),
                     IF build = "checklist.js" THEN DutyDoc(build, ev[i], duty)
                     ELSE duty)

\* The platform call a start-duty handler awaits rejects.
DutyCallRejected ==
    \E i \in DOMAIN ev :
        /\ ev[i].kind = "start_duty" /\ ~Ended(ev[i])
        /\ DutyApply(i, DutyStep(build, ev[i], FALSE),
                     IF build = "checklist.js" THEN DutyDoc(build, ev[i], duty)
                     ELSE duty)

InitDuty ==
    /\ build \in DutyBuilds
    /\ duty = NoDuty
    /\ DB = EmptyDoc
    /\ file = Serialize(EmptyDoc)
    /\ tmpFile = MissingFile
    /\ ActiveChats = {}
    /\ WelcomedThisRun = {}
    /\ ADD_REQUIRE_ALLOWLIST = FALSE
    /\ ev = <<>>
    /\ fin = NoHandler
    /\ clock = 0
    /\ proc = "up"
    /\ run = NoRun

NextDuty ==
    \/ StartDutyTapped
    \/ DutyCallResolved
    \/ DutyCallRejected

SpecDuty == InitDuty /\ [][NextDuty]_vars

(* ------------------------------ item taps ------------------------------ *)
\* The item buttons of part_006 (lines 310-325) and of part_009 (lines
\* 375-412), tapped by the plain member in chats that were welcomed.
TapBuilds == {"part_006", "part_009"}

\* const TITLE_MAX = Number(process.env.TITLE_MAX || 22)
TITLE_MAX == 22

\* \w of a regular expression, over the tokens of the model
IsWordToken(t) == t \in Digits \cup {"a", "b"}

\* buildKeyboard of part_009: `#${i + 1} ${it.done ? 'V' : 'O'} ${truncate(it.text)}`
ItemButtonText(it, i) ==
    <<"#", DigitTok(i + 1), " ", (IF it.done THEN "[x]" ELSE "[ ]"), " ">>
        \o truncate(it.text, TITLE_MAX)

\* msg.text.match(/^#(\d+)\b/): the digits, <<>> when there is no match.
MatchLeadingHashNumber(s) ==
    IF Len(s) >= 2 /\ s[1] = "#" /\ s[2] \in Digits
    THEN LET ds == DigitRun(Tail(s))
             rest == SubSeq(s, Len(ds) + 2, Len(s))
         IN  IF rest = <<>> \/ ~IsWordToken(Head(rest)) THEN ds ELSE <<>>
    ELSE <<>>

\* tapLimiter.get(`${cid}:${uid}`) is set: an earlier tap of the same
\* principal in the chat passed the limiter (one principal taps here).
tapLimiterHas(c) ==
    \E k \in DOMAIN ev : ev[k].msg.chat = c /\ ev[k].effect # "throttled"

\* part_009, bot.on('message') from the tap expression on, for a text the
\* expression matches.  soon: now - last < SPAM_GAP_MS.
ItemTap009(h, db, f, ck, soon) ==
    LET c == h.msg.chat
        n == DigitsValue(MatchLeadingHashNumber(h.msg.text)) - 1
        db1 == getState(db, c)
    IN  IF soon
        THEN Ret(db, f, ck, [h EXCEPT !.pc = "done", !.effect = "throttled"])
        ELSE IF n >= 0 /\ n < Len(db1[c].items)
        THEN IF db1[c].removeMode
             THEN LET db2 == [db1 EXCEPT ![c].items = Splice(@, n)]
                  IN  Ret(db2, saveData(db2), ck,
                          [Replied(h, "list") EXCEPT !.effect = "removed", !.n = n])
             ELSE LET db2 == [db1 EXCEPT ![c].items[n + 1].done = ~@]
                  IN  Ret(db2, saveData(db2), ck,
                          [Replied(h, "list") EXCEPT !.effect = "toggled", !.n = n])
        ELSE Ret(db1, f, ck, Replied(h, "list"))

\* The labels of rows 1 and 2 of the keyboard the running program sends.
TapInbound ==
    {Message(c, 2,
             (IF build = "part_009"
              THEN ItemButtonText(Item(<<"a">>, FALSE), i) ELSE TapText(i)),
             NoReply) : c \in Chats, i \in {0, 1}}

Tap006 ==
    \E m \in TapInbound :
        /\ build = "part_006"
        /\ Len(ev) < MaxEvents
        /\ Arrive(m)

Tap009 ==
    \E m \in TapInbound, soon \in BOOLEAN :
        /\ build = "part_009"
        /\ Len(ev) < MaxEvents
        /\ soon => tapLimiterHas(m.chat)
        /\ Apply(Len(ev) + 1,
                 ItemTap009(NewHandler(m, "message"), DB, file, clock, soon))
        /\ UNCHANGED <<tmpFile, ActiveChats, WelcomedThisRun,
                       ADD_REQUIRE_ALLOWLIST>>

\* Every chat holds [a (open), b (done)]; the allow list and the remove
\* mode are as earlier handlers left them.
TapDocs ==
    {[c \in Chats |->
        ScopeState(<<Item(<<"a">>, FALSE), Item(<<"b">>, TRUE)>>, al, rm, FALSE)] :
        al \in {<<>>, <<2>>}, rm \in BOOLEAN}

InitTap ==
    /\ build \in TapBuilds
    /\ DB \in TapDocs
    /\ file = Serialize(DB)
    /\ tmpFile = MissingFile
    /\ ActiveChats = Chats
    /\ WelcomedThisRun = Chats
    /\ ADD_REQUIRE_ALLOWLIST \in BOOLEAN
    /\ ev = <<>>
    /\ fin = NoHandler
    /\ clock = 0
    /\ proc = "up"
    /\ run = NoRun
    /\ duty = NoDuty

NextTap ==
    \/ Tap006
    \/ Tap009
    \/ MemberLookup

SpecTap == InitTap /\ [][NextTap]_vars

(* ------------------------- permission decisions ------------------------ *)
\* canUserAdd of part_006 (lines 147-155) and canUserModifyDutyChecklist of
\* part_008 (lines 204-217), asked for a principal of the group or, in
\* part_006, of the private chat.
PermBuilds == {"part_006", "part_008"}

canUserModifyDutyChecklistNoDuty(uid, d, db, admin) ==
    IF uid = 0 THEN FALSE
    ELSE IF admin THEN TRUE
    ELSE IF ~ADD_REQUIRE_ALLOWLIST THEN TRUE
    ELSE uid \in Range(getStateValue(db[GroupChat]).allow)

\* canUserModifyDutyChecklist(userId): the scope is the group GROUP_ID,
\* whichever chat the request came from.
canUserModifyDutyChecklist(uid, d, db, admin) ==
    IF uid = 0 THEN FALSE
    ELSE IF d.active # 0 /\ d.active = uid THEN TRUE
    ELSE IF admin THEN TRUE
    ELSE IF ~ADD_REQUIRE_ALLOWLIST THEN TRUE
    ELSE uid \in Range(getStateValue(db[GroupChat]).allow)

\* The record of a decision: br tells how bot.getChatMember settled.
Decided(m, lookupOk, allowed) ==
    [NewHandler(m, "perm") EXCEPT
        !.br = IF lookupOk THEN "lookupOk" ELSE "lookupFailed",
        !.effect = IF allowed THEN "allowed" ELSE "denied"]

\* part_006: await canUserAdd(msg)
CanUserAddDecided ==
    \E c \in Chats, u \in Users, lookupOk \in BOOLEAN :
        /\ build = "part_006"
        /\ Len(ev) < MaxEvents
        /\ LET m == Message(c, u, <<"/add", " ", "a">>, NoReply)
           IN  Apply(Len(ev) + 1,
                     Ret(DB, file, clock,
                         Decided(m, lookupOk,
                                 canUserAdd(m, DB, isAdmin(c, u, lookupOk)))))
        /\ UNCHANGED <<tmpFile, ActiveChats, WelcomedThisRun,
                       ADD_REQUIRE_ALLOWLIST>>

\* part_008: await canUserModifyDutyChecklist(uid)
CanUserModifyDecided ==
    \E u \in Users, lookupOk \in BOOLEAN :
        /\ build = "part_008"
        /\ Len(ev) < MaxEvents
        /\ LET m == Message(GroupChat, u, <<"/add", " ", "a">>, NoReply)
           IN  Apply(Len(ev) + 1,
                     Ret(DB, file, clock,
                         Decided(m, lookupOk,
                                 canUserModifyDutyChecklist(
                                     u, duty, DB, isAdmin(GroupChat, u, lookupOk)))))
        /\ UNCHANGED <<tmpFile, ActiveChats, WelcomedThisRun,
                       ADD_REQUIRE_ALLOWLIST>>

InitPerm ==
    /\ build \in PermBuilds
    /\ DB \in TapDocs
    /\ duty \in {[NoDuty EXCEPT !.active = a] :
                    a \in IF build = "part_008" THEN {0} \cup Users ELSE {0}}
    /\ file = Serialize(DB)
    /\ tmpFile = MissingFile
    /\ ActiveChats = Chats
    /\ WelcomedThisRun = Chats
    /\ ADD_REQUIRE_ALLOWLIST \in BOOLEAN
    /\ ev = <<>>
    /\ fin = NoHandler
    /\ clock = 0
    /\ proc = "up"
    /\ run = NoRun

NextPerm ==
    \/ CanUserAddDecided
    \/ CanUserModifyDecided

SpecPerm == InitPerm /\ [][NextPerm]_vars

(* --------------------------- a worked sequence ------------------------- *)
\* part_006 used in one chat whose list is empty: "Buy milk" is added, then
\* "Walk dog", then row 1 is checked, then row 2 is removed.  Each request
\* is sent once the one before it was answered and had its effect.

BuyMilk == <<"Buy", " ", "milk">>
WalkDog == <<"Walk", " ", "dog">>

\* Who writes to a chat: principal 2 in its private chat, anyone in the group.
Senders(c) == IF ChatType(c) = "private" THEN {2} ELSE Users

\* The three ways to add text t: /add (lines 194-201), the answer to the
\* force-reply prompt (lines 302-308) and free text, which in a group has
\* to reply to the bot (lines 327-336).
AddRequests(c, u, t) ==
    {Message(c, u, <<"/add", " ">> \o t, NoReply),
     Message(c, u, t, PromptReply),
     Message(c, u, t, IF ChatType(c) = "private" THEN NoReply ELSE BotReply)}

\* Row n + 1 of the keyboard buildReplyKeyboard sent last (lines 82-95).
RowTap(c, u, n) ==
    Message(c, u, itemButtonLabel(getStateValue(DB[c]).items[n + 1], n), NoReply)

\* The requests that may come next, by what was answered so far.  The row
\* is removed by /remove 2, or by "Remove mode" and a tap of row 2.
WalkRequests(c, u) ==
    CASE Len(ev) = 0 -> AddRequests(c, u, BuyMilk)
      [] Len(ev) = 1 /\ ev[1].effect = "added" -> AddRequests(c, u, WalkDog)
      [] Len(ev) = 2 /\ ev[2].effect = "added" ->
            {RowTap(c, u, 0), Message(c, u, <<"/done", " ", "1">>, NoReply)}
      [] Len(ev) = 3 /\ ev[3].effect \in {"toggled", "marked"} ->
            {Message(c, u, <<"/remove", " ", "2">>, NoReply),
             Message(c, u, <<"Remove mode">>, NoReply)}
      [] Len(ev) = 4 /\ ev[4].effect = "mode" -> {RowTap(c, u, 1)}
      [] OTHER -> {}

\* The next request arrives.
WalkRequest ==
    \E c \in Chats :
        /\ \A k \in DOMAIN ev : ev[k].pc = "done" /\ ev[k].msg.chat = c
        /\ \E u \in Senders(c) : \E m \in WalkRequests(c, u) : Arrive(m)

\* The chat's entry is absent, an empty legacy array or an empty record.
WalkScopes ==
    {NoScope, LegacyScope(<<>>),
     ScopeState(<<>>, <<>>, FALSE, FALSE), ScopeState(<<>>, <<2>>, FALSE, TRUE)}

InitWalk ==
    /\ DB \in [Chats -> WalkScopes]
    /\ file = (IF DB = EmptyDoc THEN MissingFile ELSE Serialize(DB))
    /\ tmpFile = MissingFile
    /\ ActiveChats = {c \in Chats : DB[c].shape # "none"}
    /\ WelcomedThisRun = {}
    /\ ADD_REQUIRE_ALLOWLIST \in BOOLEAN
    /\ ev = <<>>
    /\ fin = NoHandler
    /\ clock = 0
    /\ build = "part_006"
    /\ proc = "up"
    /\ run = NoRun
    /\ duty = NoDuty

NextWalk ==
    \/ WalkRequest
    \/ WelcomeSent
    \/ WelcomeListSent
    \/ WelcomeSendFailed
    \/ MemberLookup

SpecWalk == InitWalk /\ [][NextWalk]_vars

(* ------------------------------ removals ------------------------------- *)
\* The two removals of part_006, /remove <n> (lines 214-220) and an item
\* button in remove mode (lines 310-319), on lists of up to three items.

\* Lists of zero to three items, texts a, b, c in order or b, a, b, every
\* combination of done values.
RemoveLists ==
    {[k \in 1..n |-> Item(<<t[k]>>, k \in D)] :
        n \in 0..3, t \in {<<"a", "b", "c">>, <<"b", "a", "b">>},
        D \in SUBSET (1..3)}

RemoveDocs ==
    {[c \in Chats |-> ScopeState(l, <<2>>, rm, FALSE)] :
        l \in RemoveLists, rm \in BOOLEAN}

\* /remove 1 .. /remove 4, and the buttons of the keyboard sent last.
RemoveInbound(c) ==
    {Message(c, 2, <<"/remove", " ", DigitTok(k)>>, NoReply) : k \in 1..4}
    \cup {RowTap(c, 2, n) : n \in 0..(Len(getStateValue(DB[c]).items) - 1)}

RemoveRequested ==
    \E c \in Chats : \E m \in RemoveInbound(c) :
        /\ Len(ev) < MaxEvents
        /\ Arrive(m)

InitRemove ==
    /\ DB \in RemoveDocs
    /\ file = Serialize(DB)
    /\ tmpFile = MissingFile
    /\ ActiveChats = Chats
    /\ WelcomedThisRun = Chats
    /\ ADD_REQUIRE_ALLOWLIST = TRUE
    /\ ev = <<>>
    /\ fin = NoHandler
    /\ clock = 0
    /\ build = "part_006"
    /\ proc = "up"
    /\ run = NoRun
    /\ duty = NoDuty

NextRemove ==
    \/ RemoveRequested
    \/ MemberLookup

SpecRemove == InitRemove /\ [][NextRemove]_vars

(* ------------------------------ add paths ------------------------------ *)
\* The add paths of part_006 (/add, force-reply add, free-text add) and the
\* direct-message handler of part_004 (lines 114-153), whose one list
\* DB.group.items is kept in DB[GroupChat] and whose DB.dmLink is
\* duty.dmLinked.  A message without text (a photo, a sticker) has the
\* text <<>>.
AddBuilds == {"part_006", "part_004"}

AddTexts == {<<"a">>, <<" ", "a", " ">>, <<" ">>, <<>>}

\* keyboard() of part_004: `${x.done ? 'V' : 'O'} #${i + 1}`
DmButtonText(it, i) ==
    <<(IF it.done THEN "[x]" ELSE "[ ]"), " ", "#", DigitTok(i + 1)>>

\* part_004, bot.on('message'): every branch ends in a returned send.
DmMessage004(h, db, f, ck) ==
    LET text == h.msg.text
        items == db[GroupChat].items
        i == DigitsValue(MatchHashNumber(text)) - 1
    IN  IF ChatType(h.msg.chat) # "private" \/ h.msg.from \notin duty.dmLinked
        THEN Ret(db, f, ck, [h EXCEPT !.pc = "done"])
        ELSE CASE text = <<"/menu">> -> Ret(db, f, ck, Replied(h, "menu"))
               [] text = <<"Refresh">> -> Ret(db, f, ck, Replied(h, "list"))
               [] text = <<"Clear checks">> ->
                     LET db2 == [db EXCEPT ![GroupChat].items = uncheckAll(@)]
                     IN  Ret(db2, Serialize(db2), ck,
                             [Replied(h, "cleared") EXCEPT !.effect = "cleared"])
               [] text = <<"Add">> -> Ret(db, f, ck, Replied(h, "prompt"))
               [] OTHER ->
                     IF h.msg.reply.prompt
                     THEN LET db2 == [db EXCEPT ![GroupChat].items =
                                                    Append(@, Item(text, FALSE))]
                          IN  Ret(db2, Serialize(db2), ck + 1,
                                  [Replied(h, "list") EXCEPT
                                      !.effect = "added", !.item = text,
                                      !.stamp = ck + 1])
                     ELSE IF MatchHashNumber(text) # <<>> /\ i >= 0 /\ i < Len(items)
                     THEN LET db2 == [db EXCEPT ![GroupChat].items[i + 1].done = ~@]
                          IN  Ret(db2, Serialize(db2), ck,
                                  [Replied(h, "list") EXCEPT !.effect = "toggled"])
                     ELSE Ret(db, f, ck, [h EXCEPT !.pc = "done"])

\* What reaches the direct-message handler of part_004.
DmInbound ==
    {Message(PrivateChat, 2, t, NoReply) :
        t \in {<<"/menu">>, <<"Refresh">>, <<"Clear checks">>, <<"Add">>, <<"a">>,
               DmButtonText(Item(<<"a">>, FALSE), 0)}}
    \cup {Message(PrivateChat, 2, t, PromptReply) : t \in AddTexts}
    \cup {Message(GroupChat, 2, <<"a">>, PromptReply)}

\* part_006: an add request arrives.  if (!msg.text) return (line 261) and
\* the filter for command texts (line 262) end the handler at once.
Add006 ==
    \E c \in Chats, t \in AddTexts : \E u \in Senders(c) :
        \E m \in AddRequests(c, u, t) :
            /\ build = "part_006"
            /\ Len(ev) < MaxEvents
            /\ IF m.text = <<>> \/ Dispatch(m.text) = "none"
               THEN /\ Apply(Len(ev) + 1, Ret(DB, file, clock, NewHandler(m, "none")))
                    /\ UNCHANGED <<tmpFile, ActiveChats, WelcomedThisRun,
                                   ADD_REQUIRE_ALLOWLIST>>
               ELSE Arrive(m)

\* part_004: a message arrives.
Add004 ==
    \E m \in DmInbound :
        /\ build = "part_004"
        /\ Len(ev) < MaxEvents
        /\ Apply(Len(ev) + 1,
                 DmMessage004(NewHandler(m, "message"), DB, file, clock))
        /\ UNCHANGED <<tmpFile, ActiveChats, WelcomedThisRun,
                       ADD_REQUIRE_ALLOWLIST>>

\* The list holds [a (done)] or nothing; in part_004 principal 2 has or has
\* not started duty.
InitAdd ==
    /\ build \in AddBuilds
    /\ \E l \in {<<>>, <<Item(<<"a">>, TRUE)>>} :
          DB = [c \in Chats |->
                  IF c = GroupChat \/ build = "part_006"
                  THEN ScopeState(l, <<>>, FALSE, FALSE) ELSE NoScope]
    /\ file = Serialize(DB)
    /\ tmpFile = MissingFile
    /\ ActiveChats = Chats
    /\ WelcomedThisRun = Chats
    /\ ADD_REQUIRE_ALLOWLIST \in BOOLEAN
    /\ ev = <<>>
    /\ fin = NoHandler
    /\ clock = 0
    /\ proc = "up"
    /\ run = NoRun
    /\ duty \in {NoDuty, [NoDuty EXCEPT !.dmLinked = {2}]}
    /\ (build = "part_006") => (duty = NoDuty)
    /\ (build = "part_004") => ADD_REQUIRE_ALLOWLIST

NextAdd ==
    \/ Add006
    \/ Add004
    \/ MemberLookup

SpecAdd == InitAdd /\ [][NextAdd]_vars

(* ------------------------------- startup ------------------------------- *)
\* The statements of the file up to main(), for part_006 (lines 6-58, main
\* at 419-445), part_008 (lines 7-59, main at 616-640) and part_004 (lines
\* 7-40, start-up function at 178-184).
BootBuilds == {"part_006", "part_008", "part_004"}

EnvTexts == {<<>>, <<" ">>, <<"t">>}

\* A check that asks for the token only, in every program.
CredentialsMissingTokenOnly(b, r) == r.BOT_TOKEN = <<>>

\* The condition under which the file calls process.exit(1):
\*   part_006  !BOT_TOKEN
\*   part_008  !BOT_TOKEN, then !((process.env.CHAT_ID || '').trim() || null)
\*   part_004  !BOT_TOKEN || !GROUP_CHAT_ID
CredentialsMissing(b, r) ==
    CASE b = "part_006" -> r.BOT_TOKEN = <<>>
      [] b = "part_008" -> r.BOT_TOKEN = <<>> \/ Trim(r.CHAT_ID) = <<>>
      [] OTHER -> r.BOT_TOKEN = <<>> \/ r.CHAT_ID = <<>>

\* if (!BOT_TOKEN ...) { console.error(...); process.exit(1); }
EnvChecked ==
    /\ run.main = "env"
    /\ run' = IF CredentialsMissing(build, run)
              THEN Exit([run EXCEPT !.main = "failed"], "1")
              ELSE [run EXCEPT !.main = "bot"]
    /\ UNCHANGED <<DB, file, tmpFile, ActiveChats, WelcomedThisRun,
                   ADD_REQUIRE_ALLOWLIST, ev, fin, clock, build, proc, duty>>

\* new TelegramBot(BOT_TOKEN, { polling }): part_004 passes polling: true,
\* which starts the update loop at once.
BotCreated ==
    /\ run.main = "bot"
    /\ run' = [run EXCEPT !.main = "load",
                          !.phase = IF build = "part_004" THEN "Running" ELSE @]
    /\ UNCHANGED <<DB, file, tmpFile, ActiveChats, WelcomedThisRun,
                   ADD_REQUIRE_ALLOWLIST, ev, fin, clock, build, proc, duty>>

\* let DB = loadData(); const ActiveChats = new Set(Object.keys(DB)).
\* part_004: const DB = load(); DB.group ??= { items: [] }; save(DB); then
\* its start-up function sends 'Bot awake' to the group.
DataLoaded ==
    /\ run.main = "load"
    /\ proc = "down"
    /\ proc' = "up"
    /\ IF build = "part_004"
       THEN /\ DB' = getState(load(file).doc, GroupChat)
            /\ file' = Serialize(DB')
            /\ run' = [run EXCEPT !.main = "awake",
                                  !.jobs = <<Broadcast("awake", {GroupChat}, FALSE)>>]
       ELSE /\ DB' = loadData(file).doc
            /\ file' = loadData(file).file
            /\ run' = [run EXCEPT !.main = "polling"]
    /\ ActiveChats' = {c \in Chats : DB'[c].shape # "none"}
    /\ UNCHANGED <<tmpFile, WelcomedThisRun, ADD_REQUIRE_ALLOWLIST, ev, fin,
                   clock, build, duty>>

\* main(): getMe, deleteWebHook and startPolling have resolved; the awake
\* broadcast goes to the chats on record (part_006) or to CHAT_ID.
BootPolling ==
    /\ run.main = "polling" /\ run.exit = "none"
    /\ LET targets == IF build = "part_006" THEN ActiveChats ELSE {GroupChat}
           r1 == [run EXCEPT !.phase = "Running"]
       IN  run' = IF targets = {} THEN [r1 EXCEPT !.main = "armed"]
                  ELSE [r1 EXCEPT !.main = "awake",
                                  !.jobs = <<Broadcast("awake", targets, TRUE)>>]
    /\ UNCHANGED <<DB, file, tmpFile, ActiveChats, WelcomedThisRun,
                   ADD_REQUIRE_ALLOWLIST, ev, fin, clock, build, proc, duty>>

\* The awake sends settled.  A rejection is caught per chat in part_006
\* and part_008; in part_004 nothing catches it and no 'unhandledRejection'
\* listener exists: the process ends with code 1.
AwakeSettled ==
    \E ok \in BOOLEAN :
        /\ run.main = "awake" /\ run.exit = "none"
        /\ LET job == [run.jobs[1] EXCEPT !.todo = {},
                                          !.tried = run.jobs[1].targets,
                                          !.threw = ~ok /\ ~run.jobs[1].guarded]
               r1 == [run EXCEPT !.jobs = <<>>, !.ended = job, !.main = "armed"]
           IN  run' = IF job.threw THEN Exit([r1 EXCEPT !.main = "failed"], "1")
                      ELSE r1
        /\ UNCHANGED <<DB, file, tmpFile, ActiveChats, WelcomedThisRun,
                       ADD_REQUIRE_ALLOWLIST, ev, fin, clock, build, proc, duty>>

InitBoot ==
    /\ build \in BootBuilds
    /\ \E t \in EnvTexts, c \in EnvTexts :
          run = [NoRun EXCEPT !.main = "env", !.BOT_TOKEN = t, !.CHAT_ID = c]
    /\ proc = "down"
    /\ DB = EmptyDoc
    /\ file \in {MissingFile, PartialFile} \cup {Serialize(d) : d \in InitDocs}
    /\ tmpFile = MissingFile
    /\ ActiveChats = {}
    /\ WelcomedThisRun = {}
    /\ ADD_REQUIRE_ALLOWLIST = TRUE
    /\ ev = <<>>
    /\ fin = NoHandler
    /\ clock = 0
    /\ duty = NoDuty

NextBoot ==
    \/ EnvChecked
    \/ BotCreated
    \/ DataLoaded
    \/ BootPolling
    \/ AwakeSettled

SpecBoot == InitBoot /\ [][NextBoot]_vars

(* ------------------- the duty holder's direct messages ----------------- *)
\* part_008 (lines 1-700) and part_005: one checklist, the group's, worked
\* from the direct-message chat of a principal.  The private chat of
\* principal u is the chat whose id is u: a message of PrivateChat from u is
\* a message of u's own chat.  The group's items live in DB[GroupChat]; the
\* recorded holder is duty.active (st.duty of part_008, st.dutyUserId of
\* part_005) and duty.dmLinked is st.dmLinked of part_005.
HolderBuilds == {"part_008", "part_005"}

\* requireDutyDM(msg) of part_008: ok exactly when a holder is recorded, the
\* chat is private and duty.dmChatId === msg.chat.id.
requireDutyDM(m, d) ==
    d.active # 0 /\ ChatType(m.chat) = "private" /\ d.active = m.from

\* The group's list with one change, saved.
HolderSaved(h, db2, ck, effect) ==
    Ret(db2, saveData(db2), ck, [Replied(h, "list") EXCEPT !.effect = effect])

\* part_008, bot.on('message') (lines 505-575).  After requireDutyDM the
\* sender is the holder, for whom canUserModifyDutyChecklist returns at its
\* first test (line 209) without a platform call: the handler is one
\* segment up to its closing send.
DmMessage008(h, db, f, ck, d) ==
    LET text == h.msg.text
        u == h.msg.from
        st == db[GroupChat]
        n == DigitsValue(MatchHashNumber(text)) - 1
        allowed == canUserModifyDutyChecklist(u, d, db, FALSE)
        t == Trim(text)
        push == [db EXCEPT ![GroupChat].items = Append(@, Item(t, FALSE))]
    IN  IF text = <<>> \/ IsCommandText(text) \/ ChatType(h.msg.chat) # "private"
        THEN Ret(db, f, ck, [h EXCEPT !.pc = "done"])
        ELSE IF ~requireDutyDM(h.msg, d)
        THEN Ret(db, f, ck, Replied(h, "reject"))
        ELSE CASE text = <<"Refresh">> -> Ret(db, f, ck, Replied(h, "list"))
               [] text = <<"Clear checks">> ->
                     LET db2 == [db EXCEPT ![GroupChat].items = uncheckAll(@)]
                     IN  Ret(db2, (IF db2 # db THEN saveData(db2) ELSE f), ck,
                             [Replied(h, "list") EXCEPT !.effect = "cleared"])
               [] text \in {<<"Compact view">>, <<"Full view">>} ->
                     HolderSaved(h, [db EXCEPT ![GroupChat].compact =
                                                   (text = <<"Compact view">>)],
                                 ck, "view")
               [] text = <<"Remove mode">> ->
                     IF ~allowed THEN Ret(db, f, ck, Replied(h, "reject"))
                     ELSE LET db2 == [db EXCEPT ![GroupChat].removeMode = TRUE]
                          IN  Ret(db2, saveData(db2), ck,
                                  [Replied(h, "removeModeOn") EXCEPT
                                      !.effect = "mode"])
               [] text = <<"Done removing">> ->
                     HolderSaved(h, [db EXCEPT ![GroupChat].removeMode = FALSE],
                                 ck, "mode")
               [] text = <<"Add">> -> Ret(db, f, ck, Replied(h, "prompt"))
               [] OTHER ->
                     IF h.msg.reply.prompt
                     THEN IF ~allowed THEN Ret(db, f, ck, Replied(h, "reject"))
                          ELSE IF t = <<>>
                          THEN Ret(db, f, ck, [h EXCEPT !.pc = "done"])
                          ELSE HolderSaved(h, push, ck, "added")
                     ELSE IF MatchHashNumber(text) # <<>> /\ n >= 0
                             /\ n < Len(st.items)
                     THEN IF st.removeMode
                          THEN IF ~allowed
                               THEN Ret(db, f, ck, Replied(h, "reject"))
                               ELSE HolderSaved(h,
                                        [db EXCEPT ![GroupChat].items =
                                                       Splice(@, n)],
                                        ck, "removed")
                          ELSE HolderSaved(h,
                                   [db EXCEPT ![GroupChat].items[n + 1].done = ~@],
                                   ck, "toggled")
                     ELSE IF ~allowed THEN Ret(db, f, ck, Replied(h, "reject"))
                     ELSE IF t = <<>>
                     THEN Ret(db, f, ck, [h EXCEPT !.pc = "done"])
                     ELSE HolderSaved(h, push, ck, "added")

\* part_005, bot.on('message') (lines 262-365): the test is
\* st.dmLinked[dmChatId], which the start-duty callback sets and nothing
\* clears; st.dutyUserId is not read.  The sends go through safeSend.
DmMessage005(h, db, f, ck, d) ==
    LET st == db[GroupChat]
        text == Trim(h.msg.text)
        idx == DigitsValue(MatchHashNumber(text)) - 1
        push == [db EXCEPT ![GroupChat].items = Append(@, Item(text, FALSE))]
    IN  IF h.msg.text = <<>> \/ ChatType(h.msg.chat) # "private"
           \/ (text # <<>> /\ Head(text) \in CommandWords)
        THEN Ret(db, f, ck, [h EXCEPT !.pc = "done"])
        ELSE IF h.msg.from \notin d.dmLinked
        THEN Ret(db, f, ck, Replied(h, "reject"))
        ELSE CASE text = <<"Refresh">> -> Ret(db, f, ck, Replied(h, "menu"))
               [] text = <<"Clear checks">> ->
                     LET db2 == [db EXCEPT ![GroupChat].items = uncheckAll(@)]
                     IN  Ret(db2, (IF db2 # db THEN saveData(db2) ELSE f), ck,
                             [Replied(h, "menu") EXCEPT !.effect = "cleared"])
               [] text = <<"Remove mode">> ->
                     HolderSaved(h, [db EXCEPT ![GroupChat].removeMode = TRUE],
                                 ck, "mode")
               [] text = <<"Done removing">> ->
                     HolderSaved(h, [db EXCEPT ![GroupChat].removeMode = FALSE],
                                 ck, "mode")
               [] text = <<"Add">> -> Ret(db, f, ck, Replied(h, "prompt"))
               [] OTHER ->
                     IF h.msg.reply.prompt
                     THEN IF text = <<>>
                          THEN Ret(db, f, ck, [h EXCEPT !.pc = "done"])
                          ELSE HolderSaved(h, push, ck, "added")
                     ELSE IF MatchHashNumber(text) # <<>> /\ idx >= 0
                             /\ idx < Len(st.items)
                     THEN IF st.removeMode
                          THEN HolderSaved(h,
                                   [db EXCEPT ![GroupChat].items =
                                                  Splice(@, idx)],
                                   ck, "removed")
                          ELSE HolderSaved(h,
                                   [db EXCEPT ![GroupChat].items[idx + 1].done = ~@],
                                   ck, "toggled")
                     ELSE IF Len(text) > 0
                     THEN HolderSaved(h, push, ck, "added")
                     ELSE Ret(db, f, ck, [h EXCEPT !.pc = "done"])

\* What a principal sends in the direct-message chat, and one message of
\* the group.
HolderInbound ==
    {Message(PrivateChat, u, t, NoReply) :
        u \in Users,
        t \in {<<"Refresh">>, <<"Clear checks">>, <<"Remove mode">>,
               <<"Done removing">>, <<"Add">>, <<"b">>, <<"/list">>,
               DmButtonText(Item(<<"a">>, FALSE), 0)}}
    \cup {Message(PrivateChat, u, <<"b">>, PromptReply) : u \in Users}
    \cup {Message(GroupChat, 1, <<"b">>, NoReply)}

\* A principal takes duty.
\*   part_005 (195-210): callback START_DUTY sets st.dmLinked[id] and
\*     st.dutyUserId at once;
\*   part_008 (296-321): assignDutyFromDM awaits bot.getChatMember and calls
\*     setDuty when the lookup resolved.
DutyTaken ==
    \E u \in Users, lookupOk \in BOOLEAN :
        /\ build \in HolderBuilds
        /\ duty' = IF build = "part_005"
                   THEN [active |-> u, dmLinked |-> duty.dmLinked \cup {u}]
                   ELSE IF lookupOk THEN [duty EXCEPT !.active = u]
                   ELSE duty
        /\ fin' = NoHandler
        /\ UNCHANGED <<DB, file, tmpFile, ActiveChats, WelcomedThisRun,
                       ADD_REQUIRE_ALLOWLIST, ev, clock, build, proc, run>>

\* A message arrives and its handler runs.
HolderMessage ==
    \E m \in HolderInbound :
        /\ build \in HolderBuilds
        /\ Len(ev) < MaxEvents
        /\ Apply(Len(ev) + 1,
                 IF build = "part_008"
                 THEN DmMessage008(NewHandler(m, "message"), DB, file, clock, duty)
                 ELSE DmMessage005(NewHandler(m, "message"), DB, file, clock, duty))
        /\ UNCHANGED <<tmpFile, ActiveChats, WelcomedThisRun,
                       ADD_REQUIRE_ALLOWLIST>>

\* The group's list is [a] or empty, nobody holds duty.
InitHolder ==
    /\ build \in HolderBuilds
    /\ \E l \in {<<>>, <<Item(<<"a">>, FALSE)>>} :
          DB = [c \in Chats |->
                  IF c = GroupChat THEN ScopeState(l, <<>>, FALSE, FALSE)
                  ELSE NoScope]
    /\ file = Serialize(DB)
    /\ tmpFile = MissingFile
    /\ ActiveChats = {GroupChat}
    /\ WelcomedThisRun = {}
    /\ ADD_REQUIRE_ALLOWLIST = TRUE
    /\ ev = <<>>
    /\ fin = NoHandler
    /\ clock = 0
    /\ proc = "up"
    /\ run = NoRun
    /\ duty = NoDuty

NextHolder ==
    \/ DutyTaken
    \/ HolderMessage

SpecHolder == InitHolder /\ [][NextHolder]_vars

(* ------------------------- free text in a group ------------------------ *)
\* part_006: messages that are no command and no menu button, in reply to
\* nothing, to a message of the bot, to the bot's add prompt, to a message
\* of a principal, or to a message of a principal whose text holds
\* "Send the task text:" (the test of line 302 reads the text of the
\* message replied to, not its sender).
UserPromptReply(u) == [from |-> u, prompt |-> TRUE]

PolicyInbound ==
    {Message(c, u, t, r) :
        c \in Chats, u \in Users,
        t \in {<<"b">>, <<" ">>, TapText(0), <<"b", " ", "#", "9">>},
        r \in {NoReply, BotReply, PromptReply, UserReply(1), UserPromptReply(1)}}

\* A message arrives in a chat that was welcomed in this run.
PolicyMessage ==
    \E m \in PolicyInbound :
        /\ build = "part_006"
        /\ Len(ev) < MaxEvents
        /\ Arrive(m)

\* Both chats hold [a] and were welcomed; principal 2 is or is not on the
\* group's allow list.
InitPolicy ==
    /\ build = "part_006"
    /\ \E al \in {<<>>, <<2>>} :
          DB = [c \in Chats |->
                  ScopeState(<<Item(<<"a">>, FALSE)>>,
                             (IF c = GroupChat THEN al ELSE <<>>), FALSE, FALSE)]
    /\ file = Serialize(DB)
    /\ tmpFile = MissingFile
    /\ ActiveChats = Chats
    /\ WelcomedThisRun = Chats
    /\ ADD_REQUIRE_ALLOWLIST \in BOOLEAN
    /\ ev = <<>>
    /\ fin = NoHandler
    /\ clock = 0
    /\ proc = "up"
    /\ run = NoRun
    /\ duty = NoDuty

NextPolicy ==
    \/ PolicyMessage
    \/ MemberLookup

SpecPolicy == InitPolicy /\ [][NextPolicy]_vars

(* ------------------- the duty program's own checklist ------------------ *)
\* The duty program of part_003 (lines 1105-1925): every principal has a
\* checklist of their own in the direct-message chat, the hard-coded
\* BASE_ITEMS ticked in baseDone and the extra items the principal added.
\* The principal of the direct-message chat is principal 2, a plain member
\* of the group; DB[PrivateChat] is DB.users[2], DB[GroupChat].allow is
\* DB.allow[GROUP_CHAT_ID] and run.CHAT_ID is GROUP_CHAT_ID.

\* The commands the 'message' handler leaves to bot.onText (line 1721).
DutyCommandWords ==
    {"/start", "/help", "/menu", "/clear", "/allow", "/deny", "/whoallowed"}

AllFalse(n) == [k \in 1..n |-> FALSE]

UserState(extra, removeMode, compact, baseDone) ==
    [ScopeState(extra, <<>>, removeMode, compact) EXCEPT !.baseDone = baseDone]

\* A baseDone that is kept as DATA_PATH held it.
NormalBaseDoneKept(old) == old

\* BASE_ITEMS.map((_, i) => Boolean(old[i])) when the lengths differ.
NormalBaseDone(old) ==
    [i \in 1..BASE_LEN |-> IF i <= Len(old) THEN old[i] ELSE FALSE]

\* getUserState(uid): a missing state is created (and saved by the caller
\* below), a stored one is normalised in memory.
getUserState(db) ==
    IF db[PrivateChat].shape = "none"
    THEN [db EXCEPT ![PrivateChat] = UserState(<<>>, FALSE, FALSE, AllFalse(BASE_LEN))]
    ELSE [db EXCEPT ![PrivateChat].baseDone = NormalBaseDone(@)]

\* A decision that lets everybody modify the extra items.
canUserModifyExtrasOpen(uid, db, admin) == TRUE

\* canUserModifyExtras(uid) with isAdmin's answer.
canUserModifyExtras(uid, db, admin) ==
    IF ~ADD_REQUIRE_ALLOWLIST THEN TRUE
    ELSE IF run.CHAT_ID = <<>> THEN FALSE
    ELSE admin \/ uid \in Range(getStateValue(db[GroupChat]).allow)

\* st.extra.push({ text: t, done: false }); saveData(DB); sendDmChecklist
ExtraPush(h, db, ck, t) ==
    LET db2 == [db EXCEPT ![PrivateChat].items = Append(@, Item(t, FALSE))]
    IN  Ret(db2, saveData(db2), ck,
            [Replied(h, "list") EXCEPT !.effect = "added", !.item = t])

\* The handler after await canUserModifyExtras(uid), by the place br it
\* was awaited at.
AfterExtras(h, db, f, ck, allowed) ==
    LET t == Trim(h.msg.text)
    IN  IF ~allowed THEN Ret(db, f, ck, Replied(h, "reject"))
        ELSE CASE h.br = "removeMode" ->
                     LET db2 == [db EXCEPT ![PrivateChat].removeMode = TRUE]
                     IN  Ret(db2, saveData(db2), ck,
                             [Replied(h, "removeModeOn") EXCEPT !.effect = "mode"])
               [] h.br = "prompt" -> Ret(db, f, ck, Replied(h, "prompt"))
               [] h.br = "forceReply" ->
                     IF t = <<>> THEN Ret(db, f, ck, [h EXCEPT !.pc = "done"])
                     ELSE ExtraPush(h, db, ck, t)
               [] h.br = "tap" ->
                     LET db2 == [db EXCEPT ![PrivateChat].items = Splice(@, h.n)]
                     IN  Ret(db2, saveData(db2), ck,
                             [Replied(h, "list") EXCEPT
                                 !.effect = IF db2 # db THEN "removed" ELSE "none"])
               [] OTHER -> ExtraPush(h, db, ck, t)

\* await canUserModifyExtras(uid): it returns in the same turn unless
\* allowlist enforcement is on and GROUP_CHAT_ID is set, where it awaits
\* bot.getChatMember.
AwaitExtras(h, br, db, f, ck) ==
    IF ~ADD_REQUIRE_ALLOWLIST \/ run.CHAT_ID = <<>>
    THEN AfterExtras([h EXCEPT !.br = br], db, f, ck,
                     canUserModifyExtras(h.msg.from, db, FALSE))
    ELSE Ret(db, f, ck, [h EXCEPT !.pc = "extras", !.br = br])

\* resetChecksForUser(uid)
resetChecksForUser(db) ==
    [db EXCEPT ![PrivateChat].baseDone = AllFalse(BASE_LEN),
               ![PrivateChat].items = uncheckAll(@)]

\* /clear (lines 1585-1592) and bot.on("message") (lines 1717-1847) up to
\* the first platform await.  A message the handler returns on before
\* getUserState (no text, not a private chat, a command of bot.onText that
\* only sends text) has the effect "ignored".
DmMessage003(h, db0, f0, ck) ==
    LET text == h.msg.text
        db == getUserState(db0)
        f == IF db0[PrivateChat].shape = "none" THEN saveData(db) ELSE f0
        st == db[PrivateChat]
        ds == MatchHashNumber(text)
        idx0 == DigitsValue(ds) - 1
        saved(db2, effect) ==
            Ret(db2, saveData(db2), ck, [Replied(h, "list") EXCEPT !.effect = effect])
    IN  IF text = <<>> \/ ChatType(h.msg.chat) # "private"
        THEN Ret(db0, f0, ck, [h EXCEPT !.pc = "done", !.effect = "ignored"])
        ELSE IF cmdReMatches("/clear", text)
        THEN saved(resetChecksForUser(db), "cleared")
        ELSE IF Head(text) \in DutyCommandWords
        THEN Ret(db0, f0, ck, [h EXCEPT !.pc = "done", !.effect = "ignored"])
        ELSE CASE text = <<"Refresh">> -> Ret(db, f, ck, Replied(h, "list"))
               [] text = <<"Clear checks">> ->
                     saved(resetChecksForUser(db), "cleared")
               [] text \in {<<"Compact view">>, <<"Full view">>} ->
                     saved([db EXCEPT ![PrivateChat].compact =
                                          (text = <<"Compact view">>)], "view")
               [] text = <<"Remove mode">> -> AwaitExtras(h, "removeMode", db, f, ck)
               [] text = <<"Done removing">> ->
                     saved([db EXCEPT ![PrivateChat].removeMode = FALSE], "mode")
               [] text = <<"Add">> -> AwaitExtras(h, "prompt", db, f, ck)
               [] OTHER ->
                     IF h.msg.reply.prompt
                     THEN AwaitExtras(h, "forceReply", db, f, ck)
                     ELSE IF ds # <<>> /\ idx0 >= 0 /\ idx0 < BASE_LEN
                     THEN saved([db EXCEPT ![PrivateChat].baseDone[idx0 + 1] = ~@],
                                "toggled")
                     ELSE IF ds # <<>> /\ idx0 >= BASE_LEN
                             /\ idx0 < BASE_LEN + Len(st.items)
                     THEN IF st.removeMode
                          THEN AwaitExtras([h EXCEPT !.n = idx0 - BASE_LEN], "tap",
                                           db, f, ck)
                          ELSE saved([db EXCEPT
                                         ![PrivateChat].items[idx0 - BASE_LEN + 1].done
                                             = ~@], "toggled")
                     ELSE IF Trim(text) # <<>>
                     THEN AwaitExtras(h, "free", db, f, ck)
                     ELSE Ret(db, f, ck, [h EXCEPT !.pc = "done"])

\* The text of the button of row n: "#" and the digits of n.
HashTap(n) ==
    <<"[ ]", " ", "#">>
        \o (IF n < 10 THEN <<DigitTok(n)>>
            ELSE <<DigitTok(n \div 10), DigitTok(n % 10)>>)

\* What principal 2 sends in the direct-message chat, and one message of
\* the group.
BaseInbound ==
    {Message(PrivateChat, 2, t, NoReply) :
        t \in {<<"Refresh">>, <<"Clear checks">>, <<"Compact view">>,
               <<"Remove mode">>, <<"Done removing">>, <<"Add">>,
               <<"/clear">>, <<"/help">>, <<"b">>, <<" ">>,
               HashTap(1), HashTap(BASE_LEN), HashTap(BASE_LEN + 1),
               HashTap(BASE_LEN + 2)}}
    \cup {Message(PrivateChat, 2, t, PromptReply) : t \in {<<"b">>, <<" ">>}}
    \cup {Message(GroupChat, 2, <<"b">>, NoReply)}

\* A message arrives and its handler runs to its first platform await.
BaseMessage ==
    \E m \in BaseInbound :
        /\ build = "part_003"
        /\ Len(ev) < MaxEvents
        /\ Apply(Len(ev) + 1,
                 DmMessage003(NewHandler(m, "message"), DB, file, clock))
        /\ UNCHANGED <<tmpFile, ActiveChats, WelcomedThisRun,
                       ADD_REQUIRE_ALLOWLIST>>

\* bot.getChatMember of isAdmin settled: canUserModifyExtras reads the
\* allowlist as it is now (getAllowlist creates a missing one) and the
\* handler goes on.
ExtrasLookup ==
    \E i \in DOMAIN ev, lookupOk \in BOOLEAN :
        /\ ev[i].pc = "extras"
        /\ LET h == ev[i]
               admin == isAdmin(GroupChat, h.msg.from, lookupOk)
               db == IF admin THEN DB ELSE getState(DB, GroupChat)
           IN  Apply(i, AfterExtras(h, db, file, clock,
                                    canUserModifyExtras(h.msg.from, db, admin)))
        /\ UNCHANGED <<tmpFile, ActiveChats, WelcomedThisRun,
                       ADD_REQUIRE_ALLOWLIST>>

\* /allow and /deny (lines 1595-1650): group of GROUP_CHAT_ID only, then as
\* in part_006.
BaseAllowDeny ==
    /\ build = "part_003"
    /\ run.CHAT_ID # <<>>
    /\ OnAllowDeny

\* DATA_PATH holds no state of principal 2, or one whose baseDone has the
\* length of BASE_ITEMS, or one written when BASE_ITEMS was shorter or
\* longer.
BaseStored ==
    {<<>>, <<TRUE>>, AllFalse(BASE_LEN), [AllFalse(BASE_LEN + 1) EXCEPT ![2] = TRUE]}

InitBase ==
    /\ build = "part_003"
    /\ \E us \in {NoScope}
                 \cup {UserState(ex, rm, FALSE, bd) :
                          ex \in {<<>>, <<Item(<<"a">>, FALSE)>>},
                          rm \in BOOLEAN, bd \in BaseStored},
          al \in {<<>>, <<2>>} :
          DB = [c \in Chats |->
                  IF c = GroupChat THEN ScopeState(<<>>, al, FALSE, FALSE) ELSE us]
    /\ file = Serialize(DB)
    /\ tmpFile = MissingFile
    /\ ActiveChats = {}
    /\ WelcomedThisRun = {}
    /\ ADD_REQUIRE_ALLOWLIST \in BOOLEAN
    /\ ev = <<>>
    /\ fin = NoHandler
    /\ clock = 0
    /\ proc = "up"
    /\ \E g \in {<<>>, <<"-", "1">>} : run = [NoRun EXCEPT !.CHAT_ID = g]
    /\ duty = NoDuty

NextBase ==
    \/ BaseMessage
    \/ ExtrasLookup
    \/ BaseAllowDeny
    \/ MemberLookup

SpecBase == InitBase /\ [][NextBase]_vars

(* ----------------------------- run after run --------------------------- *)
\* The duty program of part_003 over several runs of the process on one
\* DATA_PATH.  DB.duty.active is duty.active in memory and the field duty
\* of the file (0: null); GROUP_CHAT_ID is set and the same in every run.
\* ev holds the handlers of the current run.

\* saveData(DB) of a document whose DB.duty.active is d.active.
saveDuty(db, d) == [saveData(db) EXCEPT !.duty = d.active]

\* let DB = loadData(); ensureRoot(): the stored duty.active is kept.
loadDuty(f) == IF ReadThrows(f) THEN NoDuty ELSE [NoDuty EXCEPT !.active = f.duty]

\* What sendRunReminder (1491-1500) and announceSleepSummaryToGroup
\* (1474-1488) tell the group: "no duty user is active" when
\* getActiveDuty() is null, else the holder's name and status.
Report(kind, d) ==
    [NewHandler(Message(GroupChat, BOT, <<>>, NoReply), kind) EXCEPT
        !.effect = IF d.active = 0 THEN "noDuty" ELSE "duty",
        !.n = d.active]

RunsUnchanged ==
    UNCHANGED <<DB, tmpFile, ActiveChats, WelcomedThisRun, ADD_REQUIRE_ALLOWLIST,
                clock, build, run>>

\* callback_query start_duty arrives: await bot.answerCallbackQuery (1674).
StartDutyArrived ==
    \E u \in Users :
        /\ build = "part_003" /\ proc = "up"
        /\ Len(ev) < MaxEvents
        /\ ev' = Append(ev, [StartDutyQuery(u) EXCEPT
                                !.seq = Len(ev) + 1, !.pc = "answer"])
        /\ fin' = NoHandler
        /\ UNCHANGED <<file, duty, proc>>
    /\ RunsUnchanged

\* The answer settled: setActiveDuty(fromId, groupId) (1693, 1211-1219);
\* the notices that follow are each in a try.
StartDutyAnswered ==
    \E i \in DOMAIN ev :
        LET h == [ev[i] EXCEPT !.pc = "done", !.effect = "duty"]
            d == [duty EXCEPT !.active = ev[i].msg.from]
        IN  /\ build = "part_003" /\ proc = "up"
            /\ ev[i].pc = "answer"
            /\ duty' = d
            /\ file' = saveDuty(DB, d)
            /\ ev' = [ev EXCEPT ![i] = Summary(h)]
            /\ fin' = h
            /\ UNCHANGED proc
    /\ RunsUnchanged

\* A reminder timer of scheduleRunReminders fires (marks 30, 45 and 50).
RunReminderSent ==
    /\ build = "part_003" /\ proc = "up"
    /\ \E minMark \in {30, 45, 50} :
          fin' = [Report("reminder", duty) EXCEPT !.stamp = minMark]
    /\ fin' # fin
    /\ UNCHANGED <<file, duty, ev, proc>>
    /\ RunsUnchanged

\* gracefulShutdown: the summary, then process.exit(0).
RunShutdown ==
    /\ build = "part_003" /\ proc = "up"
    /\ fin' = Report("summary", duty)
    /\ proc' = "down"
    /\ UNCHANGED <<file, duty, ev>>
    /\ RunsUnchanged

\* The next run starts: let DB = loadData(); ensureRoot().
RunStarts ==
    /\ build = "part_003" /\ proc = "down"
    /\ duty' = loadDuty(file)
    /\ file' = IF ReadThrows(file) THEN saveDuty(DB, NoDuty) ELSE file
    /\ ev' = <<>>
    /\ fin' = NoHandler
    /\ proc' = "up"
    /\ RunsUnchanged

\* The first run has started on a missing DATA_PATH.
InitRuns ==
    /\ build = "part_003"
    /\ DB = EmptyDoc
    /\ file = Serialize(EmptyDoc)
    /\ tmpFile = MissingFile
    /\ ActiveChats = {}
    /\ WelcomedThisRun = {}
    /\ ADD_REQUIRE_ALLOWLIST = FALSE
    /\ ev = <<>>
    /\ fin = NoHandler
    /\ clock = 0
    /\ proc = "up"
    /\ run = NoRun
    /\ duty = NoDuty

NextRuns ==
    \/ StartDutyArrived
    \/ StartDutyAnswered
    \/ RunReminderSent
    \/ RunShutdown
    \/ RunStarts

SpecRuns == InitRuns /\ [][NextRuns]_vars

(* ------------------------------- claims -------------------------------- *)

\* The items of a chat, whatever the shape of its entry.
ItemsOf(db, c) == getStateValue(db[c]).items

\* The handler ended in this step came through an entry point that adds or
\* removes: /add, /remove, an item tap in remove mode, a force-reply add, a
\* free-text add.
IsAddOrRemoveAttempt(h) ==
    h.kind \in {"add", "remove"} \/ h.br \in {"tap", "forceReply", "free"}

\* The sender is neither an administrator of the chat nor in its allow set.
NotPermitted(m, db) ==
    /\ ChatType(m.chat) # "private"
    /\ ~IsAdminStatus(m.chat, m.from)
    /\ m.from \notin Range(getStateValue(db[m.chat]).allow)

\* C1: with allowlist enforcement on, in the group, an add or remove attempt
\* by a principal who is neither administrator nor in the allow set leaves
\* the chat's items unchanged, whatever the entry point.
C1_PermissionGate ==
    [][(/\ ADD_REQUIRE_ALLOWLIST
        /\ fin'.pc = "done"
        /\ IsAddOrRemoveAttempt(fin')
        /\ NotPermitted(fin'.msg, DB))
       => ItemsOf(DB', fin'.msg.chat) = ItemsOf(DB, fin'.msg.chat)]_vars

\* C3: while a handler that has checked its index and removeMode is
\* suspended before applying its removal, no step of another handler
\* changes the chat's entry in the document.
C3_NoInterleavedMutation ==
    [][\A i \in DOMAIN ev :
        (ev[i].pc = "perm" /\ ev[i].br = "tap" /\ ev'[i] = ev[i])
        => DB'[ev[i].msg.chat] = DB[ev[i].msg.chat]]_vars

\* C4: of two accepted adds to the same chat, the one that arrived first is
\* appended first.
C4_ArrivalOrder ==
    \A i, j \in DOMAIN ev :
        (/\ i < j
         /\ ev[i].effect = "added"
         /\ ev[j].effect = "added"
         /\ ev[i].msg.chat = ev[j].msg.chat)
        => ev[i].stamp < ev[j].stamp

\* A toggle or remove request that names its item by number: /done N,
\* /remove N, or the label of an item button.
IsIndexRequest(text) ==
    text # <<>> /\ Head(text) \in {"/done", "/remove", "[ ]", "[x]"}

\* C6: a toggle or remove request whose index is a number outside
\* 1..items.length leaves the items unchanged, whatever the entry point.
C6_OutOfRangeNoOp ==
    [][(fin'.pc = "done" /\ fin'.oor /\ IsIndexRequest(fin'.msg.text))
       => ItemsOf(DB', fin'.msg.chat) = ItemsOf(DB, fin'.msg.chat)]_vars

\* The labels of the reply keyboard's control buttons.
ControlLabels ==
    {"Refresh", "Clear checks", "Compact view", "Full view", "Remove mode",
     "Done removing", "Add"}

\* A text that is no command, no control-button label and no item-button
\* label, sent where free text is accepted: in the private chat, or in the
\* group as a reply to the bot.
IsFreeText(m) ==
    /\ m.text # <<>>
    /\ ~IsCommandText(m.text)
    /\ m.text \notin {<<l>> : l \in ControlLabels}
    /\ Head(m.text) \notin {"[ ]", "[x]"}
    /\ (ChatType(m.chat) = "private" \/ m.reply.from = BOT)

\* C7: such a text, from a principal allowed to add, appends exactly one
\* item, whose text is the message's full text, and changes no other item.
C7_FreeTextAdds ==
    [][(/\ fin'.pc = "done"
        /\ fin'.kind = "message"
        /\ IsFreeText(fin'.msg)
        /\ ~NotPermitted(fin'.msg, DB))
       => ItemsOf(DB', fin'.msg.chat)
            = Append(ItemsOf(DB, fin'.msg.chat), Item(fin'.msg.text, FALSE))]_vars

\* An add, done or remove command whose argument is missing, blank or, for
\* done and remove, not a number.
HasBadArgument(text) ==
    /\ text # <<>>
    /\ Head(text) \in {"/add", "/done", "/remove"}
    /\ LET arg == Trim(Tail(text))
       IN  \/ arg = <<>>
           \/ Head(text) # "/add" /\ \E k \in DOMAIN arg : arg[k] \notin Digits

\* C8: such a command is answered with a usage error and changes nothing.
C8_UsageError ==
    (fin.pc = "done" /\ HasBadArgument(fin.msg.text))
    => ("usage" \in fin.replies /\ fin.effect = "none")

C2_CrashSafeSave ==
    [][(/\ ~ReadThrows(file)
        /\ \/ proc' \in {"open", "written"}
           \/ proc \in {"open", "written"} /\ proc' = "down")
       => file' = file]_vars

\* C9: a load that finds DATA_PATH missing or malformed returns the empty
\* document and leaves DATA_PATH holding the empty document.
C9_LoadReinitialises ==
    [][(proc = "down" /\ proc' = "up" /\ ReadThrows(file))
       => (DB' = EmptyDoc /\ file' = Serialize(EmptyDoc))]_vars

\* A request to clear the checks: /clear, the "Clear checks" button, the
\* inline clear button.
IsClearRequest(h) ==
    \/ h.kind = "clear"
    \/ h.kind = "message" /\ h.msg.text = <<"Clear checks">>
    \/ h.kind = "callback" /\ h.msg.text = <<"clear_all">>

\* C5: a handled request to clear the checks leaves the chat with the same
\* items in the same order, each with done = false.
C5_ClearChecksKeepsItems ==
    [][(fin'.pc = "done" /\ IsClearRequest(fin'))
       => LET c == fin'.msg.chat
              before == ItemsOf(DB, c)
          IN  ItemsOf(DB', c)
                = [k \in DOMAIN before |-> [before[k] EXCEPT !.done = FALSE]]]_vars

Flushed ==
    /\ ~ReadThrows(file)
    /\ \A c \in Chats : getStateValue(Parse(file)[c]) = getStateValue(DB[c])

\* C13: a run that was polling and has stopped through the duration timer
\* or through a termination signal has sent (or attempted) the final status
\* broadcast, and the durable document holds the in-memory one.
C13_FinalBroadcastThenFlush ==
    (run.phase = "Stopped" /\ run.main # "polling"
        /\ run.by \in {"timer", "signal"})
    => (run.summary /\ Flushed)

\* C14: the sleep warning fires at most once, and a run with a positive
\* DURATION_MINUTES that has stopped through the duration timer has fired
\* it.
C14_WarningBeforeTimedStop ==
    /\ run.warnings <= 1
    /\ (run.phase = "Stopped" /\ run.by = "timer" /\ run.DURATION_MINUTES > 0)
       => run.warnings = 1

\* C15: the callback of the duration timer never ends without
\* process.exit: when a step of it has thrown, the process is stopped.
C15_TimedStopTerminates ==
    (run.by = "timer" /\ run.stop = "threw") => run.phase = "Stopped"

\* C16: a broadcast to more than one destination that has ended has tried
\* every destination and has not thrown.
C16_BroadcastIsolation ==
    Cardinality(run.ended.targets) > 1
    => (~run.ended.threw /\ run.ended.tried = run.ended.targets)

\* C17: once polling has started, main() never exits through its catch
\* because a send rejected, and when the awake broadcast has ended the
\* timers are armed.
C17_OutboundFailureNotFatal ==
    /\ run.main # "fatal"
    /\ (run.ended.kind = "awake" /\ run.exit = "none") => run.main = "armed"

\* C18: a start-duty handler that ended after the direct message to the
\* principal was rejected did not throw, and the group notice was sent
\* (or its send was attempted and rejected by the platform).
C18_DmFailureNoticed ==
    (fin.kind = "start_duty" /\ fin.effect = "dmFailed")
    => /\ fin.pc = "done"
       /\ fin.replies \cap {"notice", "noticeRejected"} # {}

\* C19: the step that ends an item tap has, when it deleted, deleted item
\* n alone and for a principal that passes canUserAdd; when it toggled,
\* flipped item n alone; and a tap naming a valid index outside remove mode
\* toggles in the step it arrives.
C19_TapTogglesOrRemoves ==
    [][LET h == fin'
           c == h.msg.chat
           ds == IF build = "part_009" THEN MatchLeadingHashNumber(h.msg.text)
                 ELSE MatchHashNumber(h.msg.text)
           i == DigitsValue(ds) - 1
       IN  (h.kind = "message" /\ h.pc = "done" /\ ds # <<>>)
           => /\ h.effect = "removed"
                 => /\ DB[c].removeMode
                    /\ canUserAdd(h.msg, DB, IsAdminStatus(c, h.msg.from))
                    /\ DB' = [DB EXCEPT ![c].items = Splice(@, i)]
              /\ h.effect = "toggled"
                 => /\ ~DB[c].removeMode
                    /\ DB' = [DB EXCEPT ![c].items[i + 1].done = ~@]
              /\ (Len(ev') > Len(ev) /\ i >= 0 /\ i < Len(DB[c].items)
                    /\ ~DB[c].removeMode)
                 => h.effect = "toggled"]_vars

\* The principal of decision h is on the allow list of the chat.
OnAllowList(h) == h.msg.from \in Range(DB[h.msg.chat].allow)

\* C20, as stated: a decision is true exactly when the chat is private, or
\* the principal is an administrator of the chat, or ADD_REQUIRE_ALLOWLIST
\* is off, or the principal is on the allow list.
C20_DecisionExact ==
    fin.kind = "perm"
    => (fin.effect = "allowed"
        <=> \/ ChatType(fin.msg.chat) = "private"
            \/ IsAdminStatus(fin.msg.chat, fin.msg.from)
            \/ ~ADD_REQUIRE_ALLOWLIST
            \/ OnAllowList(fin))

\* C20: a decision is true exactly when the chat is private, or the
\* administrator lookup succeeded and reported an administrator, or
\* ADD_REQUIRE_ALLOWLIST is off, or the principal is on the allow list, or
\* (part_008) the principal is the one on duty.
C20_DecisionExactWithDutyAndLookup ==
    fin.kind = "perm"
    => (fin.effect = "allowed"
        <=> \/ ChatType(fin.msg.chat) = "private"
            \/ (fin.br = "lookupOk" /\ IsAdminStatus(fin.msg.chat, fin.msg.from))
            \/ ~ADD_REQUIRE_ALLOWLIST
            \/ OnAllowList(fin)
            \/ (build = "part_008" /\ duty.active = fin.msg.from))

C20_Witness ==
    /\ fin.kind = "perm" /\ fin.effect = "allowed"
    /\ build = "part_008" /\ duty.active = fin.msg.from
    /\ ADD_REQUIRE_ALLOWLIST /\ ~OnAllowList(fin)
    /\ ~IsAdminStatus(fin.msg.chat, fin.msg.from)

\* C21: from an empty list, adding "Buy milk", adding "Walk dog", checking
\* row 1 and removing row 2 leave, one after the other, [Buy milk/open],
\* [Buy milk/open, Walk dog/open], a first item that is done, and
\* [Buy milk/done].
C21_WorkedSequence ==
    LET items == ItemsOf(DB, ev[1].msg.chat)
        n == Len(ev)
        last == ev[n].effect
    IN  n >= 1 =>
          /\ (n = 1 /\ last = "added") => items = <<Item(BuyMilk, FALSE)>>
          /\ (n = 2 /\ last = "added") =>
                items = <<Item(BuyMilk, FALSE), Item(WalkDog, FALSE)>>
          /\ (n = 3 /\ last \in {"toggled", "marked"}) =>
                /\ items[1].done = TRUE
                /\ items = <<Item(BuyMilk, TRUE), Item(WalkDog, FALSE)>>
          /\ (n >= 4 /\ last = "removed") => items = <<Item(BuyMilk, TRUE)>>

\* The sequence was run to its end through the item buttons.
C21_Witness ==
    /\ Len(ev) = 5
    /\ ev[3].effect = "toggled"
    /\ ev[5].effect = "removed"
    /\ ItemsOf(DB, ev[1].msg.chat) = <<Item(BuyMilk, TRUE)>>

\* The row an item tap names, counted from zero.
TappedRow(h) == DigitsValue(MatchHashNumber(h.msg.text)) - 1

\* C22: when a tap has flipped an item and the very next step is a second
\* tap flipping the same row of the same chat, the list is again what the
\* first tap found: the item's done value is restored and no other item
\* has changed.
C22_ToggleTwiceRestores ==
    [][(/\ fin.effect = "toggled"
        /\ fin'.effect = "toggled"
        /\ fin'.seq # fin.seq
        /\ fin'.msg.chat = fin.msg.chat
        /\ TappedRow(fin') = TappedRow(fin))
       => ItemsOf(DB', fin.msg.chat) = fin.before]_vars

\* Two taps, one after the other, have flipped the same row of a chat.
C22_Witness ==
    /\ Len(ev) = 2
    /\ ev[1].effect = "toggled"
    /\ fin.seq = 2
    /\ fin.effect = "toggled"
    /\ ev[1].msg.chat = fin.msg.chat
    /\ TappedRow(fin) = 1
    /\ fin.before = <<Item(<<"a">>, FALSE), Item(<<"b">>, FALSE)>>
    /\ ItemsOf(DB, fin.msg.chat) = <<Item(<<"a">>, FALSE), Item(<<"b">>, TRUE)>>

\* The row a removal names, counted from zero: <n> - 1 of /remove <n>, the
\* row of the button otherwise.
RemovedRow(h) ==
    IF h.kind = "remove" THEN ParseInt(cmdReArg(h.msg.text)).val - 1
    ELSE TappedRow(h)

\* C23: a removal at a valid row i of a list of n items leaves n - 1 items:
\* the rows before i as they were, and every row after i one place lower,
\* with its text and done value.
C23_RemoveShiftsDown ==
    [][(/\ fin'.effect = "removed"
        /\ fin'.seq # fin.seq
        /\ RemovedRow(fin') >= 0
        /\ RemovedRow(fin') < Len(fin'.before))
       => LET old == fin'.before
              new == ItemsOf(DB', fin'.msg.chat)
              i == RemovedRow(fin')
          IN  /\ Len(new) = Len(old) - 1
              /\ \A k \in 1..Len(new) :
                    new[k] = IF k <= i THEN old[k] ELSE old[k + 1]]_vars

\* [a, b, c] has lost b: c is now row 2.
C23_Witness ==
    /\ fin.effect = "removed"
    /\ RemovedRow(fin) = 1
    /\ Len(fin.before) = 3
    /\ fin.before[2].text = <<"b">>
    /\ fin.before[3] = Item(<<"c">>, TRUE)
    /\ Len(ItemsOf(DB, fin.msg.chat)) = 2
    /\ ItemsOf(DB, fin.msg.chat)[2] = Item(<<"c">>, TRUE)

\* C24: every item of every list has a text that is not empty, and an item
\* that was just added is the last of its list and is not done.
C24_ItemTextNonEmpty ==
    /\ \A c \in Chats : \A k \in DOMAIN ItemsOf(DB, c) :
          ItemsOf(DB, c)[k].text # <<>>
    /\ fin.effect = "added" =>
          \E c \in Chats :
              /\ ItemsOf(DB, c) # <<>>
              /\ ItemsOf(DB, c)[Len(ItemsOf(DB, c))] = Item(fin.item, FALSE)

\* What the running program's load returns for DATA_PATH holding f.
LoadOf(f) == IF build = "part_004" THEN load(f) ELSE loadData(f)

\* C25: the document a start loads is the document a second load returns
\* from DATA_PATH as the first load left it, also when the first load found
\* DATA_PATH missing or malformed.
C25_LoadTwiceEqual ==
    [][(proc = "down" /\ proc' = "up") => LoadOf(file').doc = DB']_vars

\* A start has found DATA_PATH missing or malformed: part_006 has written
\* the empty document, part_004 has left the file as it was.
C25_Witness ==
    /\ proc = "up"
    /\ DB = EmptyDoc
    /\ \/ build = "part_004" /\ ReadThrows(file)
       \/ build = "part_006" /\ file = Serialize(EmptyDoc) /\ tmpFile = PartialFile

\* C26: a step changes the entry of a chat (its items, allow list, remove
\* mode, view) only if it is a step of a handler of a message sent to that
\* chat; a tap deletes only under the remove mode of its own chat.
C26_ScopesIsolated ==
    [][/\ \A d \in Chats :
            DB'[d] # DB[d] =>
                \E i \in DOMAIN ev' :
                    /\ i > Len(ev) \/ ev'[i] # ev[i]
                    /\ ev'[i].msg.chat = d
       /\ \A i \in DOMAIN ev' :
            (ev'[i].br = "tap" /\ (i > Len(ev) \/ ev[i].br # "tap"))
                => DB[ev'[i].msg.chat].removeMode]_vars

\* Remove mode was turned on in the group, and the tap that followed in
\* the private chat, whose remove mode is off, flipped its item.
C26_Witness ==
    /\ Len(ev) = 2
    /\ ev[1].msg.chat = GroupChat
    /\ ev[1].effect = "mode"
    /\ DB[GroupChat].removeMode
    /\ fin.seq = 2
    /\ fin.msg.chat = PrivateChat
    /\ fin.effect = "toggled"
    /\ ~DB[PrivateChat].removeMode
    /\ Len(DB[PrivateChat].items) = 1

\* C27: the step in which "Compact view" or "Full view" is carried out sets
\* the chat's compact flag as asked and changes nothing else: the items
\* (their number, texts, done values and order), the allow list and the
\* remove mode of the chat, read through getState, and every other chat's
\* entry are as before.
C27_ViewSwitchOnlyView ==
    [][(fin'.effect = "view" /\ fin'.seq # fin.seq)
       => LET c == fin'.msg.chat
          IN  /\ DB'[c].compact = (fin'.msg.text = <<"Compact view">>)
              /\ getStateValue(DB'[c]) =
                    [getStateValue(DB[c]) EXCEPT !.compact = DB'[c].compact]
              /\ \A d \in Chats \ {c} : DB'[d] = DB[d]]_vars

\* The group's list [a, b (done)], its allow list and its remove mode are
\* as they were and the view is now compact.
C27_Witness ==
    /\ fin.effect = "view"
    /\ fin.msg.chat = GroupChat
    /\ DB[GroupChat] =
          ScopeState(<<Item(<<"a">>, FALSE), Item(<<"b">>, TRUE)>>, <<2>>, TRUE, TRUE)

\* C28: a chat that has an entry in the document keeps an entry in every
\* step, and the step that carries out a clear changes no other chat's
\* entry.
C28_ScopesOnlyGrow ==
    [][/\ \A c \in Chats : DB[c].shape # "none" => DB'[c].shape # "none"
       /\ (fin'.effect = "cleared" /\ fin'.seq # fin.seq)
            => \A d \in Chats \ {fin'.msg.chat} : DB'[d] = DB[d]]_vars

\* /clear has emptied a list that had items: the chat still has its entry.
C28_Witness ==
    /\ fin.effect = "cleared"
    /\ fin.before # <<>>
    /\ DB[fin.msg.chat].shape # "none"
    /\ DB[fin.msg.chat].items = <<>>

\* The token is unset or empty, or the program is one that exits without
\* CHAT_ID and CHAT_ID is unset or empty.
RequiredEnvMissing ==
    \/ run.BOT_TOKEN = <<>>
    \/ build \in {"part_008", "part_004"} /\ run.CHAT_ID = <<>>

\* C29: when a required process.env value is missing, the file's check
\* ends the process with code 1, and in no state has the document been
\* loaded or written, the update loop been started or a message been sent.
C29_MissingCredentialExitsFirst ==
    RequiredEnvMissing =>
        /\ run.main \in {"env", "failed"}
        /\ run.main = "failed" => (run.exit = "1" /\ run.phase = "Stopped")
        /\ run.main = "env" => run.phase = "Starting"
        /\ proc = "down" /\ DB = EmptyDoc /\ tmpFile = MissingFile
        /\ file \in {MissingFile, PartialFile} \cup {Serialize(d) : d \in InitDocs}
        /\ run.jobs = <<>> /\ run.ended = NoBroadcast

\* part_008 has exited on a missing CHAT_ID with the token present.
C29_Witness ==
    /\ build = "part_008"
    /\ run.BOT_TOKEN = <<"t">>
    /\ run.CHAT_ID = <<>>
    /\ run.exit = "1"
    /\ proc = "down"

\* C30: in the step in which an item tap deletes an item, the remove mode
\* of its chat is on.
C30_TapDeletesOnlyInRemoveMode ==
    [][(/\ fin'.seq # fin.seq
        /\ fin'.br = "tap"
        /\ fin'.effect = "removed"
        /\ Len(ItemsOf(DB', fin'.msg.chat)) < Len(ItemsOf(DB, fin'.msg.chat)))
       => getStateValue(DB[fin'.msg.chat]).removeMode]_vars

\* C31: the side effects of the shutdown routine happen exactly once per
\* run: when the duty program has run its shutdown routine to the exit, the
\* final summary was issued once, also when the duration timer fired and a
\* termination signal arrived while the routine awaited the summary.
C31_ShutdownEffectsOnce ==
    (build = "part_003" /\ run.stop = "done") => run.summaries = 1

\* C32: a direct-message event changes the group's checklist only if its
\* sender is the principal recorded as duty holder at that moment; after
\* another principal took duty the former holder's events change nothing.
C32_OnlyHolderMutates ==
    [][(DB'[GroupChat] # DB[GroupChat]) =>
          (fin' # NoHandler /\ fin'.msg.from = duty.active)]_vars

\* C33: a failure of the first-contact welcome (or of the list sent after
\* it) does not stop the event that triggered it: an /add with a task text
\* from a permitted principal (here: in a private chat, where canUserAdd
\* asks nobody) ends with its item appended and saved.
C33_WelcomeFailureStillAdds ==
    (/\ fin # NoHandler
     /\ fin.kind = "add"
     /\ ChatType(fin.msg.chat) = "private"
     /\ Trim(cmdReArg(fin.msg.text)) # <<>>)
    => (/\ fin.effect = "added"
        /\ file = saveData(DB)
        /\ \E k \in DOMAIN ItemsOf(DB, fin.msg.chat) :
              ItemsOf(DB, fin.msg.chat)[k].text = Trim(cmdReArg(fin.msg.text)))

C35_GroupFreeTextNeedsReplyToBot ==
    (/\ fin # NoHandler
     /\ fin.kind = "message"
     /\ ChatType(fin.msg.chat) # "private"
     /\ fin.msg.reply.from # BOT)
    => fin.effect # "added"

\* C36: with ADD_REQUIRE_ALLOWLIST on, a step that appends to the extra
\* list of a principal is the end of an event of a principal who is an
\* administrator of the configured group or on its allowlist, whichever of
\* the add prompt, the force-reply and free text it came through.
C36_ExtrasOnlyForPermitted ==
    [][(ADD_REQUIRE_ALLOWLIST
        /\ Len(DB'[PrivateChat].items) > Len(DB[PrivateChat].items))
       => /\ fin' # NoHandler
          /\ run.CHAT_ID # <<>>
          /\ \/ IsAdminStatus(GroupChat, fin'.msg.from)
             \/ fin'.msg.from \in Range(DB'[GroupChat].allow)]_vars

\* Principal 2, on the allowlist while enforcement is on, has just added an
\* extra item by a reply to the add prompt.
C36_Witness ==
    /\ ADD_REQUIRE_ALLOWLIST
    /\ fin # NoHandler
    /\ fin.effect = "added"
    /\ fin.br = "forceReply"
    /\ fin.msg.from \in Range(DB[GroupChat].allow)
    /\ DB[PrivateChat].items # <<>>

C37_StopLeavesAllUnchecked ==
    (build = "part_006" /\ run.phase = "Stopped" /\ run.by \in {"timer", "signal"})
    => \A c \in Chats :
          LET stored == getStateValue(loadData(file).doc[c])
              held == getStateValue(DB[c])
          IN  /\ \A k \in DOMAIN stored.items : ~stored.items[k].done
              /\ [k \in DOMAIN stored.items |-> stored.items[k].text]
                    = [k \in DOMAIN held.items |-> held.items[k].text]
              /\ stored.allow = held.allow

\* C38: a duty assignment does not carry into the next run: a run starts
\* with no holder, and a reminder or the final summary reports that no
\* duty user is active unless a principal started duty in the current run.
C38_DutyDoesNotCarryOver ==
    LET startedThisRun == \E i \in DOMAIN ev : ev[i].effect = "duty"
    IN  /\ (proc = "up" /\ ~startedThisRun) => duty.active = 0
        /\ (fin # NoHandler /\ fin.kind \in {"reminder", "summary"}
               /\ ~startedThisRun)
           => fin.effect = "noDuty"

====
